---------------------------- MODULE Spec2Model ----------------------------
(***************************************************************************)
(* A model of glycowork's glycan graphs (motif/graph.py): the conversion   *)
(* of IUPAC-condensed notations into attributed graphs, the node-match     *)
(* predicates, compare_glycans, subgraph_isomorphism with its counting     *)
(* loop, largest_subgraph and get_possible_topologies.                     *)
(*                                                                         *)
(* A notation is a sequence of symbols: the glycoletters (tokens) and the  *)
(* delimiters "(", ")", "[", "]".  A Python str is modelled by its         *)
(* sequence of characters where the code looks at characters (TokenChars). *)
(* Node ids are 0-based as in the code.                                    *)
(***************************************************************************)
EXTENDS Integers, Sequences, FiniteSets, TLC

(***************************************************************************)
(* Generic helpers                                                         *)
(***************************************************************************)
Range(s) == {s[i] : i \in DOMAIN s}

RECURSIVE SumWidths(_)
SumWidths(s) == IF s = <<>> THEN 0 ELSE s[1].w + SumWidths(Tail(s))

RECURSIVE Concat(_)
Concat(ss) == IF ss = <<>> THEN <<>> ELSE ss[1] \o Concat(Tail(ss))

\* the sequence s without the elements at positions i..j
CutOut(s, i, j) == SubSeq(s, 1, i - 1) \o SubSeq(s, j + 1, Len(s))

RECURSIVE SortedInsert(_, _)
SortedInsert(s, x) ==
    IF s = <<>> THEN <<x>>
    ELSE IF x <= s[1] THEN <<x>> \o s
    ELSE <<s[1]>> \o SortedInsert(Tail(s), x)

Min(S) == CHOOSE n \in S : \A m \in S : n <= m
Max(S) == CHOOSE n \in S : \A m \in S : m <= n

\* the sequence s without the elements of S
RECURSIVE SeqMinus(_, _)
SeqMinus(s, S) ==
    IF s = <<>> THEN <<>>
    ELSE (IF Head(s) \in S THEN <<>> ELSE <<Head(s)>>) \o SeqMinus(Tail(s), S)

(***************************************************************************)
(* Token registry and Python strings                                       *)
(***************************************************************************)
\* the library of glycoletters (glycan_data.loader.lib): ordered, no repeats
lib == <<"Gal", "Glc", "Man", "Hex", "a1-3", "b1-4", "?1-?", "GlcNAc", "b1-2", "a1-6">>

\* libr.index(character), 0-based
character_to_label(character) ==
    (CHOOSE i \in 1..Len(lib) :
        lib[i] = character /\ \A j \in 1..(i - 1) : lib[j] # character) - 1

\* the characters of each glycoletter, as Python sees the str
TokenChars(t) ==
    CASE t = "Gal"  -> <<"G", "a", "l">>
      [] t = "Glc"  -> <<"G", "l", "c">>
      [] t = "Man"  -> <<"M", "a", "n">>
      [] t = "Hex"  -> <<"H", "e", "x">>
      [] t = "a1-3" -> <<"a", "1", "-", "3">>
      [] t = "b1-4" -> <<"b", "1", "-", "4">>
      [] t = "?1-?" -> <<"?", "1", "-", "?">>
      [] t = "GlcNAc" -> <<"G", "l", "c", "N", "A", "c">>
      [] t = "b1-2" -> <<"b", "1", "-", "2">>
      [] t = "a1-6" -> <<"a", "1", "-", "6">>

\* a total order on the characters in use, for sorted()
CharRank(c) ==
    CASE c = "-" -> 1 [] c = "1" -> 2 [] c = "2" -> 3 [] c = "3" -> 4
      [] c = "4" -> 5 [] c = "6" -> 6 [] c = "?" -> 7 [] c = "A" -> 8
      [] c = "G" -> 9 [] c = "H" -> 10 [] c = "M" -> 11 [] c = "N" -> 12
      [] c = "a" -> 13 [] c = "b" -> 14 [] c = "c" -> 15 [] c = "e" -> 16
      [] c = "l" -> 17 [] c = "n" -> 18 [] c = "x" -> 19

\* Python values are typed: a str never equals an int.  A value that may be
\* either is carried with its type.
PyStr(s) == <<"str", s>>
PyInt(i) == <<"int", i>>
PyEq(a, b) == a[1] = b[1] /\ a[2] = b[2]
\* x in list
PyIn(x, list) == \E i \in DOMAIN list : PyEq(x, list[i])

(***************************************************************************)
(* Notations                                                               *)
(***************************************************************************)
Delims == {"(", ")", "[", "]"}

IsGlycoletter(s) == s \notin Delims

\* the glycoletters of a notation, in textual order
min_process_glycans(glycan) == SelectSeq(glycan, IsGlycoletter)

\* glycan[-1]: the last character of the notation
LastCharOf(glycan) ==
    LET s == glycan[Len(glycan)]
    IN  IF s \in Delims THEN s ELSE TokenChars(s)[Len(TokenChars(s))]

\* len(str(k))
StrWidth(k) == IF k >= 100 THEN 3 ELSE IF k >= 10 THEN 2 ELSE 1

\* The notation after every glycoletter was replaced by its index: a
\* sequence of items, a delimiter (w = 1) or the digits of index k (c = "#").
MaskGlycan(glycan) ==
    [p \in 1..Len(glycan) |->
        IF glycan[p] \in Delims
        THEN [c |-> glycan[p], w |-> 1, k |-> -1]
        ELSE LET idx == Cardinality({q \in 1..(p - 1) : glycan[q] \notin Delims})
             IN  [c |-> "#", w |-> StrWidth(idx), k |-> idx]]

\* position of the item that holds index k
ItemPos(masked, k) == CHOOSE p \in 1..Len(masked) : masked[p].k = k

\* glycan[glycan.index(str(k))+1 : glycan.index(str(j))]: what is left of
\* str(k) after its first digit, and everything up to str(j)
GlycanPart(masked, k, j) ==
    (IF StrWidth(k) > 1 THEN <<[c |-> "#", w |-> StrWidth(k) - 1, k |-> -1]>>
     ELSE <<>>)
    \o SubSeq(masked, ItemPos(masked, k) + 1, ItemPos(masked, j) - 1)

\* part[-1], and part[:-1]
LastItemChar(part) == part[Len(part)].c
ButLast(part) ==
    IF part[Len(part)].w = 1 THEN SubSeq(part, 1, Len(part) - 1)
    ELSE SubSeq(part, 1, Len(part) - 1)
         \o <<[c |-> part[Len(part)].c, w |-> part[Len(part)].w - 1, k |-> part[Len(part)].k]>>

\* evaluate_adjacency indexes an empty string (IndexError)
evaluate_adjacency_raises(glycan_part) ==
    \/ glycan_part = <<>>
    \/ LastItemChar(glycan_part) = "]" /\ ButLast(glycan_part) = <<>>

evaluate_adjacency(glycan_part, adjustment) ==
    IF /\ LastItemChar(glycan_part) \in {"(", ")"}
       /\ SumWidths(glycan_part) < 2 + adjustment
    THEN TRUE
    ELSE IF LastItemChar(glycan_part) = "]"
    THEN /\ LastItemChar(ButLast(glycan_part)) \in {"(", ")"}
         /\ SumWidths(ButLast(glycan_part)) < 2 + adjustment
    ELSE FALSE

\* a match of '\[[^\[\]]+\]': positions <<i, j>> of an innermost non-empty group
BracketGroups(part) ==
    {ij \in (1..Len(part)) \X (1..Len(part)) :
        /\ ij[1] + 1 < ij[2]
        /\ part[ij[1]].c = "[" /\ part[ij[2]].c = "]"
        /\ \A q \in (ij[1] + 1)..(ij[2] - 1) : part[q].c \notin {"[", "]"}}

\* the leftmost match
FirstBracketGroup(part) ==
    CHOOSE ij \in BracketGroups(part) : \A o \in BracketGroups(part) : ij[1] <= o[1]

RECURSIVE bracket_removal(_)
bracket_removal(glycan_part) ==
    IF BracketGroups(glycan_part) = {} THEN glycan_part
    ELSE bracket_removal(CutOut(glycan_part, FirstBracketGroup(glycan_part)[1],
                                FirstBracketGroup(glycan_part)[2]))

Adjustment(k) == IF k >= 100 THEN 2 ELSE IF k >= 10 THEN 1 ELSE 0

\* the second test of a pair, on the part without its bracket groups
AdjacentAfterRemoval(glycan_part, adjustment) ==
    /\ SumWidths(glycan_part) <= 2 + adjustment
    /\ evaluate_adjacency(glycan_part, adjustment)

\* Faulty variant: the bracket groups in between are not taken out
AdjacentPartWithoutRemoval(glycan_part, adjustment) ==
    evaluate_adjacency(glycan_part, adjustment)

AdjacentPart(glycan_part, adjustment) ==
    IF evaluate_adjacency(glycan_part, adjustment) THEN TRUE
    ELSE AdjacentAfterRemoval(bracket_removal(glycan_part), adjustment)

\* the test glycan_to_graph makes for one pair k < j
Adjacent(masked, k, j) == AdjacentPart(GlycanPart(masked, k, j), Adjustment(k))

AdjacentAfterRemovalRaises(glycan_part, adjustment) ==
    /\ SumWidths(glycan_part) <= 2 + adjustment
    /\ evaluate_adjacency_raises(glycan_part)

AdjacentPartRaises(glycan_part, adjustment) ==
    \/ evaluate_adjacency_raises(glycan_part)
    \/ /\ ~evaluate_adjacency(glycan_part, adjustment)
       /\ AdjacentAfterRemovalRaises(bracket_removal(glycan_part), adjustment)

AdjacentRaises(masked, k, j) == AdjacentPartRaises(GlycanPart(masked, k, j), Adjustment(k))

\* glycan_to_graph: the node dictionary (glycoletter k is mask_dic[k+1]) and
\* the nonzero entries of the adjacency matrix
AdjMatrix(masked, n) ==
    {kj \in (0..(n - 1)) \X (0..(n - 1)) : kj[1] < kj[2] /\ Adjacent(masked, kj[1], kj[2])}

MaskAndMatrix(glycan_proc, masked) ==
    [mask_dic |-> glycan_proc, adj_matrix |-> AdjMatrix(masked, Len(glycan_proc))]

glycan_to_graph(glycan) == MaskAndMatrix(min_process_glycans(glycan), MaskGlycan(glycan))

AdjMatrixRaises(masked, n) ==
    \E k \in 0..(n - 1), j \in 0..(n - 1) : k < j /\ AdjacentRaises(masked, k, j)

glycan_to_graph_raises(glycan) ==
    AdjMatrixRaises(MaskGlycan(glycan), Len(min_process_glycans(glycan)))


(***************************************************************************)
(* find_isomorphs (tokenization.py).  A notation is a sequence of tokens,  *)
(* and no token but a bracket holds a bracket, so the regular expressions  *)
(* act on the tokens as they act on the characters.                        *)
(***************************************************************************)
\* s.index(x), counted from 1; 0 when x is not in s
IndexOf(s, x) == IF \E p \in DOMAIN s : s[p] = x THEN Min({p \in DOMAIN s : s[p] = x}) ELSE 0

\* the first position after `from` that holds x; 0 when there is none
NextOf(s, from, x) ==
    IF \E p \in (from + 1)..Len(s) : s[p] = x
    THEN Min({p \in (from + 1)..Len(s) : s[p] = x})
    ELSE 0

\* re.search('\[[^\]]+\[', glycan): a bracket opened inside an open bracket
OpensNested(glycan) ==
    \E i, j \in DOMAIN glycan :
        /\ i + 1 < j
        /\ glycan[i] = "[" /\ glycan[j] = "["
        /\ \A q \in (i + 1)..(j - 1) : glycan[q] # "]"

\* the test made before the starting branch is swapped
StartSwappable(glycan) == IndexOf(glycan, "[") > 1 /\ ~OpensNested(glycan)

\* re.sub('^(.*?)\[(.*?)\]', r'\2[\1]', glycan, 1)
SwapStartBranch(glycan) ==
    IF IndexOf(glycan, "[") = 0 \/ NextOf(glycan, IndexOf(glycan, "["), "]") = 0 THEN glycan
    ELSE LET open  == IndexOf(glycan, "[")
             close == NextOf(glycan, open, "]")
         IN  SubSeq(glycan, open + 1, close - 1) \o <<"[">> \o SubSeq(glycan, 1, open - 1)
             \o <<"]">> \o SubSeq(glycan, close + 1, Len(glycan))

\* the leftmost match of '(\[.*?\])(\[.*?\])': <<start, end of group 1, end>>,
\* each '.*?' as short as the rest of the pattern allows
DoubleBranchMatches(k) ==
    {m \in (DOMAIN k) \X (DOMAIN k) \X (DOMAIN k) :
        /\ m[1] < m[2] /\ m[2] + 1 < m[3]
        /\ k[m[1]] = "[" /\ k[m[2]] = "]" /\ k[m[2] + 1] = "[" /\ k[m[3]] = "]"}

FirstDoubleBranch(k) ==
    CHOOSE m \in DoubleBranchMatches(k) :
        \A o \in DoubleBranchMatches(k) :
            \/ m[1] < o[1]
            \/ m[1] = o[1] /\ m[2] < o[2]
            \/ m[1] = o[1] /\ m[2] = o[2] /\ m[3] <= o[3]

\* re.sub('(\[.*?\])(\[.*?\])', r'\2\1', k): every match, from left to right
RECURSIVE SwapDoubleBranches(_)
SwapDoubleBranches(k) ==
    IF DoubleBranchMatches(k) = {} THEN k
    ELSE LET m == FirstDoubleBranch(k)
         IN  SubSeq(k, 1, m[1] - 1) \o SubSeq(k, m[2] + 1, m[3]) \o SubSeq(k, m[1], m[2])
             \o SwapDoubleBranches(SubSeq(k, m[3] + 1, Len(k)))

out_list(glycan) ==
    {glycan} \cup (IF StartSwappable(glycan) THEN {SwapStartBranch(glycan)} ELSE {})

\* ']' directly followed by '['
HasDoubleBranch(k) == \E p \in 1..(Len(k) - 1) : k[p] = "]" /\ k[p + 1] = "["

\* temp, the list of the double branch swaps
temp_list(glycan) ==
    {SwapDoubleBranches(k) : k \in {o \in out_list(glycan) : HasDoubleBranch(o)}}

temp2(glycan) == {SwapStartBranch(k) : k \in {t \in temp_list(glycan) : StartSwappable(t)}}

find_isomorphs(glycan) == out_list(glycan) \cup temp_list(glycan) \cup temp2(glycan)

(***************************************************************************)
(* Graphs (networkx.Graph): order is the node iteration order, edges are   *)
(* two-element sets, and each attribute is a function on the nodes that    *)
(* carry it.                                                               *)
(***************************************************************************)
Nodes(g) == Range(g.order)

EmptyAttr == [n \in {} |-> 0]

Restrict(f, S) == [n \in (DOMAIN f) \cap S |-> f[n]]

Degree(g, n) == Cardinality({e \in g.edges : n \in e})

\* G.remove_nodes_from(S): the nodes, their edges and their attributes go
remove_nodes_from(g, S) ==
    [order         |-> SeqMinus(g.order, S),
     edges         |-> {e \in g.edges : e \cap S = {}},
     labels        |-> Restrict(g.labels, Nodes(g) \ S),
     string_labels |-> Restrict(g.string_labels, Nodes(g) \ S),
     termini       |-> Restrict(g.termini, Nodes(g) \ S)]

\* nx.relabel_nodes(g, mapping): a new graph, nodes in the old order
relabel_nodes(g, mapping) ==
    LET new(n) == IF n \in DOMAIN mapping THEN mapping[n] ELSE n
        old(m) == CHOOSE n \in Nodes(g) : new(n) = m
        S      == {new(n) : n \in Nodes(g)}
    IN  [order         |-> [i \in DOMAIN g.order |-> new(g.order[i])],
         edges         |-> {{new(n) : n \in e} : e \in g.edges},
         labels        |-> [m \in {new(n) : n \in DOMAIN g.labels} |-> g.labels[old(m)]],
         string_labels |-> [m \in {new(n) : n \in DOMAIN g.string_labels} |->
                               g.string_labels[old(m)]],
         termini       |-> [m \in {new(n) : n \in DOMAIN g.termini} |-> g.termini[old(m)]]]

\* G.subgraph(S): the induced subgraph
subgraph(g, S) == remove_nodes_from(g, Nodes(g) \ S)

\* the connected component of n
Neighbourhood(g, S) == S \cup {m \in Nodes(g) : \E n \in S : {n, m} \in g.edges}

RECURSIVE Reach(_, _)
Reach(g, S) ==
    IF Neighbourhood(g, S) = S THEN S ELSE Reach(g, Neighbourhood(g, S))

\* nx.connected_components, in the order of each component's first node
RECURSIVE ComponentsOf(_, _)
ComponentsOf(g, todo) ==
    IF todo = <<>> THEN <<>>
    ELSE <<Reach(g, {todo[1]})>>
         \o ComponentsOf(g, SeqMinus(todo, Reach(g, {todo[1]})))

connected_components(g) == ComponentsOf(g, g.order)

is_connected(g) == Len(connected_components(g)) = 1

(***************************************************************************)
(* glycan_to_nxGraph_int                                                   *)
(***************************************************************************)
\* the termini attribute glycan_to_nxGraph_int sets on the nodes of g
TerminiAttr(g, termini, termini_list) ==
    CASE termini = "ignore" -> EmptyAttr
      [] termini = "calc" ->
            [k \in Nodes(g) |-> IF Degree(g, k) = 1 THEN "terminal" ELSE "internal"]
      [] termini = "provided" ->
            \* zip(g1.nodes(), termini_list) stops at the shorter of the two
            [k \in {g.order[i] : i \in (DOMAIN g.order) \cap (DOMAIN termini_list)} |->
                termini_list[CHOOSE i \in DOMAIN g.order : g.order[i] = k]]

\* override_reducing_end: a notation that ends in a linkage gets 'Hex' appended
WithHelper(glycan, override_reducing_end) ==
    IF override_reducing_end /\ LastCharOf(glycan) = ")"
    THEN Append(glycan, "Hex") ELSE glycan

\* nx.from_numpy_array(adj_matrix), or the graph of the single node 0
FromAdjMatrix(n, adj_matrix) ==
    [order |-> [i \in 1..n |-> i - 1],
     edges |-> IF n > 1 THEN {{kj[1], kj[2]} : kj \in adj_matrix} ELSE {},
     labels |-> EmptyAttr, string_labels |-> EmptyAttr, termini |-> EmptyAttr]

\* Faulty variant: the last node is removed whether or not a helper was
\* appended
RemoveLastNode(g1, glycan, override_reducing_end) ==
    remove_nodes_from(g1, {Len(g1.order) - 1})

\* remove the helper monosaccharide: the last node, whenever the notation
\* ends in the character 'x'
RemoveHelper(g1, glycan, override_reducing_end) ==
    IF override_reducing_end /\ LastCharOf(glycan) = "x"
    THEN remove_nodes_from(g1, {Len(g1.order) - 1})
    ELSE g1

\* the attributes 'labels' and 'string_labels'
SetLabels(g1, node_dict) ==
    [g1 EXCEPT !.labels = [k \in Nodes(g1) |-> character_to_label(node_dict[k + 1])],
               !.string_labels = [k \in Nodes(g1) |-> node_dict[k + 1]]]

SetTermini(g1, termini, termini_list) ==
    [g1 EXCEPT !.termini = TerminiAttr(g1, termini, termini_list)]

\* the graph of the notation glycan, whose helper is already appended
GraphOfMatrix(r, glycan, termini, termini_list, override_reducing_end) ==
    SetTermini(
        SetLabels(
            RemoveHelper(FromAdjMatrix(Len(r.mask_dic), r.adj_matrix),
                         glycan, override_reducing_end),
            r.mask_dic),
        termini, termini_list)

GraphOfNotation(glycan, termini, termini_list, override_reducing_end) ==
    GraphOfMatrix(glycan_to_graph(glycan), glycan, termini, termini_list,
                  override_reducing_end)

glycan_to_nxGraph_int(glycan, termini, termini_list, override_reducing_end) ==
    GraphOfNotation(WithHelper(glycan, override_reducing_end), termini, termini_list,
                    override_reducing_end)

(***************************************************************************)
(* Node-match predicates                                                   *)
(***************************************************************************)
\* data.get(attr, default)
Get(f, n, default) == IF n \in DOMAIN f THEN f[n] ELSE default

\* nx.algorithms.isomorphism.categorical_node_match('labels', len(libr))
categorical_node_match(G1, n1, G2, n2) ==
    Get(G1.labels, n1, Len(lib)) = Get(G2.labels, n2, Len(lib))

\* Faulty variant: only the first graph's node is looked up among the wildcards
categorical_node_match_wildcard_one_sided(G1, n1, G2, n2, wildcard_list) ==
    IF PyIn(PyStr(G1.string_labels[n1]), wildcard_list) THEN TRUE
    ELSE Get(G1.labels, n1, Len(lib)) = Get(G2.labels, n2, Len(lib))

categorical_node_match_wildcard(G1, n1, G2, n2, wildcard_list) ==
    IF PyIn(PyStr(G1.string_labels[n1]), wildcard_list) THEN TRUE
    ELSE IF PyIn(PyStr(G2.string_labels[n2]), wildcard_list) THEN TRUE
    ELSE Get(G1.labels, n1, Len(lib)) = Get(G2.labels, n2, Len(lib))

\* data1['termini'] or data2['termini'] is read and the node has none (KeyError)
categorical_termini_match_raises(G1, n1, G2, n2) ==
    \/ n1 \notin DOMAIN G1.termini
    \/ G1.termini[n1] # "flexible" /\ n2 \notin DOMAIN G2.termini

\* Faulty variant: a flexible node matches whatever the labels are
categorical_termini_match_flexible_any(G1, n1, G2, n2) ==
    IF G1.termini[n1] = "flexible" THEN TRUE
    ELSE IF G2.termini[n2] = "flexible" THEN TRUE
    ELSE /\ Get(G1.labels, n1, Len(lib)) = Get(G2.labels, n2, Len(lib))
         /\ Get(G1.termini, n1, "flexible") = Get(G2.termini, n2, "flexible")

categorical_termini_match(G1, n1, G2, n2) ==
    IF G1.termini[n1] = "flexible"
    THEN Get(G1.labels, n1, Len(lib)) = Get(G2.labels, n2, Len(lib))
    ELSE IF G2.termini[n2] = "flexible"
    THEN Get(G1.labels, n1, Len(lib)) = Get(G2.labels, n2, Len(lib))
    ELSE /\ Get(G1.labels, n1, Len(lib)) = Get(G2.labels, n2, Len(lib))
         /\ Get(G1.termini, n1, "flexible") = Get(G2.termini, n2, "flexible")

\* the node_match that subgraph_isomorphism hands to GraphMatcher for `extra`
NodeMatch(extra, G1, n1, G2, n2, wildcard_list) ==
    CASE extra = "ignore"    -> categorical_node_match(G1, n1, G2, n2)
      [] extra = "wildcards" -> categorical_node_match_wildcard(G1, n1, G2, n2, wildcard_list)
      [] extra = "termini"   -> categorical_termini_match(G1, n1, G2, n2)

(***************************************************************************)
(* GraphMatcher(G1, G2, node_match): the node-induced subgraph             *)
(* isomorphisms of G2 into G1, each a function from G2's nodes to G1's     *)
(* (GraphMatcher.mapping is its inverse: its keys are the nodes of G1).    *)
(***************************************************************************)
\* the nodes of G1 that u may still be mapped to
Candidates(G1, G2, extra, wildcard_list, u, m) ==
    {v \in Nodes(G1) \ Range(m) :
        /\ NodeMatch(extra, G1, v, G2, u, wildcard_list)
        /\ \A w \in DOMAIN m : ({u, w} \in G2.edges) <=> ({v, m[w]} \in G1.edges)}

RECURSIVE Embeddings(_, _, _, _, _, _)
Embeddings(G1, G2, extra, wildcard_list, todo, m) ==
    IF todo = <<>> THEN {m}
    ELSE UNION {Embeddings(G1, G2, extra, wildcard_list, Tail(todo), (Head(todo) :> v) @@ m) :
                  v \in Candidates(G1, G2, extra, wildcard_list, Head(todo), m)}

subgraph_isomorphisms(G1, G2, extra, wildcard_list) ==
    Embeddings(G1, G2, extra, wildcard_list, G2.order, EmptyAttr)

\* GraphMatcher.subgraph_is_isomorphic()
subgraph_is_isomorphic(G1, G2, extra, wildcard_list) ==
    subgraph_isomorphisms(G1, G2, extra, wildcard_list) # {}

\* nx.is_isomorphic(G1, G2, node_match)
is_isomorphic(G1, G2, extra, wildcard_list) ==
    /\ Len(G1.order) = Len(G2.order)
    /\ subgraph_isomorphisms(G1, G2, extra, wildcard_list) # {}


(***************************************************************************)
(* glycan_to_nxGraph: the wrapper that also takes floating parts '{...}'   *)
(***************************************************************************)
Braces == {"{", "}"}

\* glycan.replace('}','{').split('{'), without the empty parts
RECURSIVE SplitBraces(_, _)
SplitBraces(glycan, cur) ==
    IF glycan = <<>> THEN (IF cur = <<>> THEN <<>> ELSE <<cur>>)
    ELSE IF Head(glycan) \in Braces
    THEN (IF cur = <<>> THEN <<>> ELSE <<cur>>) \o SplitBraces(Tail(glycan), <<>>)
    ELSE SplitBraces(Tail(glycan), Append(cur, Head(glycan)))

\* the loop that shifts the node ids of every part but the last
RECURSIVE ShiftParts(_, _, _)
ShiftParts(parts, p, len_org) ==
    IF p > Len(parts) - 1 THEN <<parts[Len(parts)]>>
    ELSE <<relabel_nodes(parts[p], [pn \in Nodes(parts[p]) |-> pn + len_org])>>
         \o ShiftParts(parts, p + 1, len_org + Len(parts[p].order))

\* f overridden by g
Override(f, g) == [n \in (DOMAIN f) \cup (DOMAIN g) |-> IF n \in DOMAIN g THEN g[n] ELSE f[n]]

\* nx.compose(a, b)
compose(a, b) ==
    [order         |-> a.order \o SeqMinus(b.order, Nodes(a)),
     edges         |-> a.edges \cup b.edges,
     labels        |-> Override(a.labels, b.labels),
     string_labels |-> Override(a.string_labels, b.string_labels),
     termini       |-> Override(a.termini, b.termini)]

\* nx.compose_all(parts)
RECURSIVE compose_all(_)
compose_all(parts) ==
    IF Len(parts) = 1 THEN parts[1]
    ELSE compose(compose_all(SubSeq(parts, 1, Len(parts) - 1)), parts[Len(parts)])

\* the parts with their node ids shifted, composed into one graph
ComposeParts(parts) == compose_all(ShiftParts(parts, 1, Len(parts[Len(parts)].order)))

\* every part of a notation with floating parts is converted with
\* override_reducing_end = True
ConvertParts(strs, termini, termini_list) ==
    [i \in DOMAIN strs |-> glycan_to_nxGraph_int(strs[i], termini, termini_list, TRUE)]

glycan_to_nxGraph(glycan, termini, termini_list, override_reducing_end) ==
    IF \E i \in DOMAIN glycan : glycan[i] = "{"
    THEN ComposeParts(ConvertParts(SplitBraces(glycan, <<>>), termini, termini_list))
    ELSE glycan_to_nxGraph_int(glycan, termini, termini_list, override_reducing_end)

(***************************************************************************)
(* compare_glycans on two graphs                                           *)
(***************************************************************************)
RECURSIVE SortRanks(_)
SortRanks(s) == IF s = <<>> THEN <<>> ELSE SortedInsert(SortRanks(Tail(s)), Head(s))

\* ''.join(nx.get_node_attributes(g, "string_labels").values())
JoinedLabels(g) ==
    Concat([i \in DOMAIN g.order |-> TokenChars(g.string_labels[g.order[i]])])

\* sorted(...) of a str: the sorted list of its characters
sorted(chars) == SortRanks([i \in DOMAIN chars |-> CharRank(chars[i])])

\* Faulty variant: the joined labels are compared without sorting
SameComponentsUnsorted(g1, g2) == JoinedLabels(g1) = JoinedLabels(g2)

\* the cheap comparison made before the isomorphism test
SameComponents(g1, g2) == sorted(JoinedLabels(g1)) = sorted(JoinedLabels(g2))

\* wildcard_list is the caller's list of names (str), used as it is
compare_glycans(g1, g2, wildcards, wildcard_list) ==
    IF Len(g1.order) = Len(g2.order)
    THEN IF wildcards
         THEN is_isomorphic(g1, g2, "wildcards",
                            [i \in DOMAIN wildcard_list |-> PyStr(wildcard_list[i])])
         ELSE IF SameComponents(g1, g2)
         THEN is_isomorphic(g1, g2, "ignore", <<>>)
         ELSE FALSE
    ELSE FALSE

(***************************************************************************)
(* graph_to_string.  The str it builds is a sequence of items as in        *)
(* MaskGlycan: a delimiter, the digits of a node id (c = "#", k the id, or *)
(* k = -1 for digits that are no id any more), or a glycoletter put in     *)
(* place of an id (k = -2).  No glycoletter of lib starts with a digit or  *)
(* holds '_', so the '_' the code puts in and takes out again is left out. *)
(***************************************************************************)
Delim(c)    == [c |-> c, w |-> 1, k |-> -1]
IdItem(k)   == [c |-> "#", w |-> StrWidth(k), k |-> k]
Letter(j)   == [c |-> j, w |-> Len(TokenChars(j)), k |-> -2]

Ok(v)       == [err |-> "", val |-> v]
Raises(e)   == [err |-> e, val |-> <<>>]

\* s with the element at position i replaced by x
ReplaceAt(s, i, x) == SubSeq(s, 1, i - 1) \o <<x>> \o SubSeq(s, i + 1, Len(s))

\* position of node n in the iteration order of graph
OrderPos(graph, n) == CHOOSE i \in DOMAIN graph.order : graph.order[i] = n

\* [e[1] for e in graph.edges() if abs(e[0]-e[1]) > 1]: edges() reports an
\* edge from the endpoint that comes first in the iteration order
branch_points(graph) ==
    {n \in Nodes(graph) :
        \E m \in Nodes(graph) :
           /\ {m, n} \in graph.edges
           /\ OrderPos(graph, m) < OrderPos(graph, n)
           /\ (m - n > 1 \/ n - m > 1)}

\* node_labels.keys(): the nodes that carry a string_label, in iteration order
LabelKeys(graph) == SeqMinus(graph.order, Nodes(graph) \ DOMAIN graph.string_labels)

\* skeleton as first built: ']'+str(k) or str(k) for the keys of node_labels
Skeleton(keys, points) ==
    [i \in DOMAIN keys |->
        IF keys[i] \in points THEN <<Delim("]"), IdItem(keys[i])>> ELSE <<IdItem(keys[i])>>]

\* '[' in m
HasOpen(m) == \E q \in DOMAIN m : m[q].c = "["

\* np.where(['[' in m for m in skeleton[:k]])[0][-1], as a position 1..k;
\* 0 if there is none (IndexError)
LastOpen(skeleton, k) ==
    IF \E i \in 1..k : HasOpen(skeleton[i])
    THEN CHOOSE i \in 1..k : HasOpen(skeleton[i]) /\ \A j \in (i + 1)..k : ~HasOpen(skeleton[j])
    ELSE 0

\* skeleton[idx-1] = skeleton[idx-1] + ']', idx a position as LastOpen gives
\* it; Python's index -1 is the last element
PushClose(skeleton, idx) ==
    IF idx - 1 >= 1
    THEN ReplaceAt(skeleton, idx - 1, Append(skeleton[idx - 1], Delim("]")))
    ELSE ReplaceAt(skeleton, Len(skeleton), Append(skeleton[Len(skeleton)], Delim("]")))

\* the if / elif / elif of one round, for the node of degree d at position p
MarkBranch(skeleton, p, d) ==
    IF d = 4 THEN PushClose(skeleton, LastOpen(skeleton, p - 1))
    ELSE IF d > 2 THEN ReplaceAt(skeleton, p, <<Delim("]")>> \o skeleton[p])
    ELSE IF d = 1 /\ p - 1 > 0 THEN ReplaceAt(skeleton, p, <<Delim("[")>> \o skeleton[p])
    ELSE skeleton

\* the first if of one round: the multibranch situation on the reducing end
MarkReducingEnd(skeleton, p, d) ==
    IF skeleton[p] = skeleton[Len(skeleton)] /\ d = 3
    THEN PushClose(skeleton, LastOpen(skeleton, p - 1))
    ELSE skeleton

\* np.where(...)[0][-1] finds nothing in one of the two places that use it
RoundRaises(skeleton, p, d) ==
    /\ LastOpen(skeleton, p - 1) = 0
    /\ \/ skeleton[p] = skeleton[Len(skeleton)] /\ d = 3
       \/ d = 4

\* for k in range(len(skeleton)), from position p = k + 1 on; graph.degree()[k]
\* is a KeyError when k is no node
RECURSIVE SkeletonLoop(_, _, _)
SkeletonLoop(graph, skeleton, p) ==
    IF p > Len(skeleton) THEN Ok(skeleton)
    ELSE IF (p - 1) \notin Nodes(graph) THEN Raises("KeyError")
    ELSE IF RoundRaises(skeleton, p, Degree(graph, p - 1)) THEN Raises("IndexError")
    ELSE SkeletonLoop(graph,
                      MarkBranch(MarkReducingEnd(skeleton, p, Degree(graph, p - 1)),
                                 p, Degree(graph, p - 1)),
                      p + 1)

\* '('.join(skeleton)
RECURSIVE JoinSkeleton(_)
JoinSkeleton(skeleton) ==
    IF Len(skeleton) = 0 THEN <<>>
    ELSE IF Len(skeleton) = 1 THEN skeleton[1]
    ELSE skeleton[1] \o <<Delim("(")>> \o JoinSkeleton(Tail(skeleton))

\* glycan[:-1]: the str without its last character
DropLastChar(glycan) ==
    IF glycan = <<>> THEN <<>>
    ELSE IF glycan[Len(glycan)].w = 1 THEN SubSeq(glycan, 1, Len(glycan) - 1)
    ELSE SubSeq(glycan, 1, Len(glycan) - 1)
         \o <<[c |-> "#", w |-> glycan[Len(glycan)].w - 1, k |-> -1]>>

\* glycan[1:]: the str without its first character
DropFirstChar(glycan) ==
    IF glycan = <<>> THEN <<>>
    ELSE IF glycan[1].w = 1 THEN Tail(glycan)
    ELSE <<[c |-> "#", w |-> glycan[1].w - 1, k |-> -1]>> \o Tail(glycan)

\* the first parenthesis after position p, 0 if there is none
NextParen(glycan, p) ==
    IF \E j \in (p + 1)..Len(glycan) : glycan[j].c \in {"(", ")"}
    THEN CHOOSE j \in (p + 1)..Len(glycan) :
            /\ glycan[j].c \in {"(", ")"}
            /\ \A q \in (p + 1)..(j - 1) : glycan[q].c \notin {"(", ")"}
    ELSE 0

\* a match of '(\([^\()]*)\(' starts at p
OpensTwice(glycan, p) ==
    /\ glycan[p].c = "("
    /\ NextParen(glycan, p) # 0
    /\ glycan[NextParen(glycan, p)].c = "("

\* re.sub('(\([^\()]*)\(', r'\1)', glycan), from position p on: the second
\* of two '(' with no parenthesis between them becomes ')'
RECURSIVE CloseParens(_, _)
CloseParens(glycan, p) ==
    IF p > Len(glycan) THEN glycan
    ELSE IF OpensTwice(glycan, p)
    THEN CloseParens(ReplaceAt(glycan, NextParen(glycan, p), Delim(")")),
                     NextParen(glycan, p) + 1)
    ELSE CloseParens(glycan, p + 1)

\* glycan.replace(a + b, new), a and b single characters
RECURSIVE ReplacePairs(_, _, _, _)
ReplacePairs(glycan, a, b, new) ==
    IF Len(glycan) < 2 THEN glycan
    ELSE IF glycan[1].c = a /\ glycan[2].c = b
    THEN new \o ReplacePairs(Tail(Tail(glycan)), a, b, new)
    ELSE <<glycan[1]>> \o ReplacePairs(Tail(glycan), a, b, new)

HasPair(glycan, a, b) ==
    \E p \in 1..(Len(glycan) - 1) : glycan[p].c = a /\ glycan[p + 1].c = b

\* while c + c in glycan: glycan = glycan.replace(c + c, c)
RECURSIVE MergeDoubled(_, _)
MergeDoubled(glycan, c) ==
    IF HasPair(glycan, c, c)
    THEN MergeDoubled(ReplacePairs(glycan, c, c, <<Delim(c)>>), c)
    ELSE glycan

\* lines 573 to 580
Normalized(skeleton) ==
    MergeDoubled(
        MergeDoubled(
            ReplacePairs(
                ReplacePairs(CloseParens(DropLastChar(JoinSkeleton(skeleton)), 1),
                             "[", ")", <<Delim(")"), Delim("[")>>),
                "]", ")", <<Delim(")"), Delim("]")>>),
            "]"),
        "[")

\* the characters [^0-9a-zA-Z\-,] among those in use
OutsideClass(ch) == ch \in {"(", ")", "[", "]", "?"}

FirstChar(item) == IF item.k = -2 THEN TokenChars(item.c)[1] ELSE item.c
LastChar(item)  == IF item.k = -2 THEN TokenChars(item.c)[Len(TokenChars(item.c))] ELSE item.c

\* re.sub('([^0-9a-zA-Z\-,])%s([^0-9a-zA-Z\-,])' % str(k), r'\1%s\2' % j, glycan):
\* the id k, with a character outside the class on either side, becomes j
SubstituteLabel(glycan, k, j) ==
    [p \in DOMAIN glycan |->
        IF /\ glycan[p].k = k
           /\ p > 1 /\ OutsideClass(LastChar(glycan[p - 1]))
           /\ p < Len(glycan) /\ OutsideClass(FirstChar(glycan[p + 1]))
        THEN Letter(j)
        ELSE glycan[p]]

\* the keys of node_labels from the largest down
RECURSIVE Descending(_)
Descending(S) ==
    IF S = {} THEN <<>> ELSE <<Max(S)>> \o Descending(S \ {Max(S)})

\* the loop of lines 581 to 585 over the keys still to do
RECURSIVE SubstituteLabels(_, _, _)
SubstituteLabels(glycan, node_labels, keys) ==
    IF keys = <<>> THEN glycan
    ELSE IF Head(keys) # 0 /\ Head(keys) # Cardinality(DOMAIN node_labels) - 1
    THEN SubstituteLabels(SubstituteLabel(glycan, Head(keys), node_labels[Head(keys)]),
                          node_labels, Tail(keys))
    ELSE SubstituteLabels(glycan, node_labels, Tail(keys))

\* glycan.rfind(c) + 1
RFind(glycan, c) ==
    IF \E p \in DOMAIN glycan : glycan[p].c = c
    THEN Max({p \in DOMAIN glycan : glycan[p].c = c})
    ELSE 0

\* max(glycan[:glycan.rfind(')')+1], glycan[:glycan.rfind(']')+1]): of two
\* prefixes of one str the longer is the greater
LongerPrefix(glycan) ==
    SubSeq(glycan, 1, IF RFind(glycan, ")") >= RFind(glycan, "]")
                      THEN RFind(glycan, ")") ELSE RFind(glycan, "]"))

\* lines 586 and 587
WithEnds(glycan, node_labels) ==
    LongerPrefix(<<Letter(node_labels[0])>> \o DropFirstChar(glycan))
    \o <<Letter(node_labels[Cardinality(DOMAIN node_labels) - 1])>>

\* lines 573 to 589 on the finished skeleton
StringOfSkeleton(skeleton, node_labels) ==
    IF 0 \notin DOMAIN node_labels
       \/ (Cardinality(DOMAIN node_labels) - 1) \notin DOMAIN node_labels
    THEN Raises("KeyError")
    ELSE Ok(WithEnds(SubstituteLabels(Normalized(skeleton), node_labels,
                                      Descending(DOMAIN node_labels)),
                     node_labels))

StringOfLoop(r, node_labels) ==
    IF r.err # "" THEN r ELSE StringOfSkeleton(r.val, node_labels)

\* graph_to_string(graph) without fallback
graph_to_string(graph) ==
    StringOfLoop(SkeletonLoop(graph, Skeleton(LabelKeys(graph), branch_points(graph)), 1),
                 graph.string_labels)

(***************************************************************************)
(* The inputs                                                              *)
(***************************************************************************)
\* the counting loop is followed for at most MaxCount rounds
MaxCount == 3

\* provided termini lists are enumerated in full up to this length
MaxFullTermini == 3

GalGlc          == <<"Gal", "(", "b1-4", ")", "Glc">>
GalGalGlc       == <<"Gal", "(", "b1-4", ")", "Gal", "(", "b1-4", ")", "Glc">>
Branched        == <<"Gal", "(", "b1-4", ")", "[", "Gal", "(", "a1-3", ")", "]", "Glc">>
BranchedSwapped == <<"Gal", "(", "a1-3", ")", "[", "Gal", "(", "b1-4", ")", "]", "Glc">>
ManGlc          == <<"Man", "(", "a1-3", ")", "Glc">>
GalHex          == <<"Gal", "(", "b1-4", ")", "Hex">>
GalAnyGlc       == <<"Gal", "(", "?1-?", ")", "Glc">>
Floating        == <<"{", "Man", "(", "a1-3", ")", "}">> \o Branched
FloatingOnChain == <<"{", "Man", "(", "a1-3", ")", "}">> \o GalGlc
FloatingUnit    == <<"{", "Man", "}">> \o GalGlc
FloatingOnHex   == <<"{", "Man", "(", "a1-3", ")", "}">> \o GalHex
GalLink         == <<"Gal", "(", "b1-4", ")">>
ManOnBranched   == <<"Man", "(", "a1-3", ")">> \o Branched
GalGlcNAc       == <<"Gal", "(", "b1-4", ")", "GlcNAc">>
GalGalMan       == <<"Gal", "(", "b1-4", ")", "Gal", "(", "b1-4", ")", "Man">>
Antenna(linkage) ==
    <<"Gal", "(", "b1-4", ")", "GlcNAc", "(", "b1-2", ")", "Man", "(", linkage, ")">>
\* Gal(b1-4)GlcNAc(b1-2)Man(a1-3)[Gal(b1-4)GlcNAc(b1-2)Man(a1-6)]Man(b1-4)GlcNAc(b1-4)GlcNAc
Biantennary ==
    Antenna("a1-3") \o <<"[">> \o Antenna("a1-6") \o <<"]">>
       \o <<"Man", "(", "b1-4", ")", "GlcNAc", "(", "b1-4", ")", "GlcNAc">>

\* the notations of the graphs a caller holds
HostNotations ==
    {GalGlc, GalGalGlc, Branched, BranchedSwapped, ManGlc, GalHex, GalAnyGlc, Floating,
     FloatingOnChain, FloatingUnit, FloatingOnHex}

\* the motifs searched for
Motifs == {GalLink, GalGlc, GalAnyGlc, GalHex, <<"Hex">>, <<"Gal">>, Branched, GalGlcNAc}

\* the notations a caller's graph is compared with
OtherNotations ==
    (HostNotations \ {Floating, FloatingOnChain, FloatingUnit, FloatingOnHex}) \cup {GalGlcNAc, GalGalMan}

\* the lists of glycans a topology check is given
ReferenceNotations == {GalGlc, Branched, ManOnBranched}
ReferenceLists ==
    {<<>>} \cup {<<a>> : a \in ReferenceNotations}
           \cup {<<a, b>> : a, b \in ReferenceNotations}

Modes == {"ignore", "wildcards", "termini"}

WildcardLists == {<<>>, <<"?1-?">>, <<"Gal", "b1-4">>}

TerminiValues == {"terminal", "internal", "flexible"}

\* the termini lists a caller provides for a motif of n glycoletters
TerminiLists(n) ==
    IF n <= MaxFullTermini THEN [1..n -> TerminiValues]
    ELSE {[i \in 1..n |-> v] : v \in TerminiValues}

\* how the caller annotated the graph it holds
HostTerminiModes == {"ignore", "calc", "provided"}
HostTerminiList ==
    [i \in 1..17 |-> <<"flexible", "internal", "terminal">>[((i - 1) % 3) + 1]]

(***************************************************************************)
(* Notations out of graph_to_string, the fallback and the errors of the    *)
(* conversion                                                              *)
(***************************************************************************)
\* The str as a notation: what lies between two delimiters is one
\* glycoletter, and it is a name of lib only if it is one whole glycoletter.
Unregistered == "#"

RECURSIVE Symbols(_, _)
Symbols(glycan, cur) ==
    IF glycan = <<>> THEN (IF cur = "" THEN <<>> ELSE <<cur>>)
    ELSE IF glycan[1].c \in Delims
    THEN (IF cur = "" THEN <<>> ELSE <<cur>>) \o <<glycan[1].c>> \o Symbols(Tail(glycan), "")
    ELSE Symbols(Tail(glycan),
                 IF cur = "" /\ glycan[1].k = -2 THEN glycan[1].c ELSE Unregistered)

NotationOf(r) == IF r.err # "" THEN r ELSE Ok(Symbols(r.val, ""))

\* the reference table of notations (glycan_data.loader.df_glycan)
df_glycan == <<GalGlc, GalGalGlc, Branched>>

\* graph_to_string(graph, fallback = True): the first notation of the table
\* with as many glycoletters as graph has nodes whose graph compare_glycans
\* takes for graph; np.where(...)[0][0] is an IndexError if there is none
FallbackHits(graph) ==
    {i \in DOMAIN df_glycan :
        /\ Len(min_process_glycans(df_glycan[i])) = Len(graph.order)
        /\ compare_glycans(graph, glycan_to_nxGraph(df_glycan[i], "ignore", <<>>, FALSE),
                           FALSE, <<>>)}

graph_to_string_fallback(graph) ==
    IF FallbackHits(graph) = {} THEN Raises("IndexError")
    ELSE Ok(df_glycan[Min(FallbackHits(graph))])

\* try: graph_to_string(lgs) except: graph_to_string(lgs, fallback = True)
TryGraphToString(r, lgs) ==
    IF r.err = "" THEN NotationOf(r) ELSE graph_to_string_fallback(lgs)

PyRaise(e) == <<"raise", e>>
PyNotation(s) == <<"str", s>>
PyNone == <<"None", 0>>

\* what a call hands back: the notation, or the exception
Returned(r) == IF r.err # "" THEN PyRaise(r.err) ELSE PyNotation(r.val)

\* what the conversion of a notation raises, "" if nothing: evaluate_adjacency
\* indexes an empty str, or libr.index finds no such glycoletter
ParseError(glycan, override_reducing_end) ==
    IF glycan_to_graph_raises(WithHelper(glycan, override_reducing_end)) THEN "IndexError"
    ELSE IF \E i \in DOMAIN glycan : glycan[i] \notin Delims /\ glycan[i] \notin Range(lib)
    THEN "ValueError"
    ELSE ""

(***************************************************************************)
(* State                                                                   *)
(***************************************************************************)
VARIABLES
    glycanStr,   \* the notation of the caller's glycan
    glycan,      \* the graph object the caller holds
    pc,          \* where the running call stands; "idle" between calls
    call,        \* the running call and its arguments
    wref,        \* the object the callee works on: "glycan" or its own "work"
    work,        \* the callee's own graph object
    g2,          \* the motif graph
    motif_comp,  \* the motif's glycoletters
    wl,          \* wildcard_list as the matcher receives it
    entry_g1,    \* g1 as it was when the matcher was first built
    counts,      \* the counter of the counting loop
    mappings,    \* graph_pair.mapping.keys() of every round, in order
    glycans,     \* the graphs a topology check is given
    ret          \* the value returned

vars == <<glycanStr, glycan, pc, call, wref, work, g2, motif_comp, wl, entry_g1,
          counts, mappings, glycans, ret>>

NoGraph == [order |-> <<>>, edges |-> {}, labels |-> EmptyAttr,
            string_labels |-> EmptyAttr, termini |-> EmptyAttr]
NoCall == [op |-> "none"]
NoRet  == <<"none", 0>>
PyBool(b) == <<"bool", b>>

\* the graph g1 of the running call
G1 == IF wref = "glycan" THEN glycan ELSE work

Init ==
    /\ glycanStr \in HostNotations \cup {Biantennary}
    /\ \E t \in HostTerminiModes :
          glycan = glycan_to_nxGraph(glycanStr, t, HostTerminiList, FALSE)
    /\ pc = "idle"
    /\ call = NoCall
    /\ wref = "work"
    /\ work = NoGraph
    /\ g2 = NoGraph
    /\ motif_comp = <<>>
    /\ wl = <<>>
    /\ entry_g1 = NoGraph
    /\ counts = 0
    /\ mappings = <<>>
    /\ glycans = <<>>
    /\ ret = NoRet

(***************************************************************************)
(* subgraph_isomorphism                                                    *)
(***************************************************************************)
\* Faulty variant: the same object under a second name
same_object(ref) == ref

\* copy.deepcopy(obj): a new object
copy_deepcopy(ref) == "work"

\* Faulty variant: the glycoletters are not tested
PreCheckSkipped(g, comp) == TRUE

\* all(k in nx.get_node_attributes(g1, "string_labels").values() for k in motif_comp)
PreCheck(g, comp) == \A i \in DOMAIN comp : comp[i] \in Range(g.string_labels)

\* Faulty variant: the glycan must be strictly larger than the motif
EntryPassesStrictlyLarger(g, motif, extra, comp) ==
    /\ Len(g.order) > Len(motif.order)
    /\ extra \in {"ignore", "termini"} => PreCheck(g, comp)

\* the tests made before the matcher is built: the sizes, and in the modes
\* 'ignore' and 'termini' the glycoletters
EntryPasses(g, motif, extra, comp) ==
    /\ Len(g.order) >= Len(motif.order)
    /\ extra \in {"ignore", "termini"} => PreCheck(g, comp)

\* wildcard_list = [libr.index(k) for k in wildcard_list]
ConvertWildcards(wildcard_list) ==
    IF Len(wildcard_list) >= 1
    THEN [i \in DOMAIN wildcard_list |-> PyInt(character_to_label(wildcard_list[i]))]
    ELSE <<>>

\* the termini argument of the two conversions
HostTermini(extra)  == IF extra = "termini" THEN "calc" ELSE "ignore"
MotifTermini(extra) == IF extra = "termini" THEN "provided" ELSE "ignore"

\* Every call of categorical_termini_match on a node of g and a node of
\* motif reads termini that are not there (KeyError): no node of g has
\* termini, or none of them is flexible and no node of motif has termini.
EveryMatchRaises(g, motif) ==
    /\ motif.order # <<>>
    /\ \/ \A v \in Nodes(g) : v \notin DOMAIN g.termini
       \/ /\ \A v \in Nodes(g) : v \in DOMAIN g.termini /\ g.termini[v] # "flexible"
          /\ \A u \in Nodes(motif) : u \notin DOMAIN motif.termini

\* GraphMatcher calls node_match for the first node of motif and a node of g
\* that has at least as many neighbours
FirstPairTried(g, motif) ==
    \E v \in Nodes(g) : Degree(g, v) >= Degree(motif, motif.order[1])

\* the first search of a positional call whose every match raises: KeyError
\* if a pair is tried, and no occurrence otherwise
RaisingSearch(g, motif, count) ==
    IF FirstPairTried(g, motif) THEN <<"raise", "KeyError">>
    ELSE IF count THEN PyInt(0) ELSE PyBool(FALSE)

\* what a call without counting returns, if it returns
\* whether the matcher finds an occurrence; none is found where the node
\* predicate cannot be evaluated on any pair
Occurs(g, motif, extra, wildcards) ==
    IF extra = "termini" /\ EveryMatchRaises(g, motif) THEN FALSE
    ELSE subgraph_is_isomorphic(g, motif, extra, wildcards)

ContainsBool(g, motif, extra, comp, wildcards) ==
    IF EntryPasses(g, motif, extra, comp)
    THEN Occurs(g, motif, extra, wildcards)
    ELSE FALSE

\* Faulty variant: the counter is not incremented
counts_unchanged(c) == c

\* counts += 1
counts_plus_one(c) == c + 1

\* Faulty variant: the motif's nodes are taken for the glycan's
mapping_values(m) == DOMAIN m

\* Faulty variant: no node of the occurrence is handed on
mapping_empty(m) == {}

\* graph_pair.mapping.keys(): the glycan's nodes of the occurrence found
mapping_keys(m) == Range(m)

\* Faulty variant: the termini of the nodes left are computed anew
RemoveAndRecalculate(keys) ==
    LET left(g) == remove_nodes_from(g, keys)
        recalculated(g) == [left(g) EXCEPT !.termini = TerminiAttr(left(g), "calc", <<>>)]
    IN  IF wref = "glycan"
        THEN glycan' = recalculated(glycan) /\ work' = work
        ELSE work' = recalculated(work) /\ glycan' = glycan

\* g1.remove_nodes_from(keys), on the object g1 names
RemoveFromG1(keys) ==
    IF wref = "glycan"
    THEN glycan' = remove_nodes_from(glycan, keys) /\ work' = work
    ELSE work' = remove_nodes_from(work, keys) /\ glycan' = glycan

\* The conversions at the head of the call: wildcard_list, motif_comp, g1, g2.
\* A termini_list shorter than the motif is not handed in together with a
\* graph that has flexible nodes: what such a call does hangs on the order
\* in which the matcher tries the nodes.
SubgraphIsomorphismCall(asStr, motif, extra, wildcard_list, termini_list, count) ==
    /\ pc = "idle"
    /\ (extra = "termini" /\ ~asStr /\ Len(termini_list) < Len(min_process_glycans(motif)))
          => "flexible" \notin Range(glycan.termini)
    /\ call' = [op |-> "contains", asStr |-> asStr, motif |-> motif,
                extra |-> extra, wildcard_list |-> wildcard_list,
                termini_list |-> termini_list, count |-> count]
    /\ wl' = ConvertWildcards(wildcard_list)
    /\ motif_comp' = min_process_glycans(motif)
    /\ IF asStr
       THEN /\ wref' = "work"
            /\ work' = glycan_to_nxGraph(glycanStr, HostTermini(extra), <<>>, FALSE)
       ELSE /\ wref' = copy_deepcopy("glycan")
            /\ work' = glycan
    /\ g2' = glycan_to_nxGraph(motif, MotifTermini(extra), termini_list, TRUE)
    /\ pc' = "entry"
    /\ UNCHANGED <<glycans, glycanStr, glycan, entry_g1, counts, mappings, ret>>

\* the size test and the glycoletter test; a call that does not count returns
SubgraphIsomorphismEntry ==
    /\ pc = "entry"
    /\ entry_g1' = G1
    /\ IF /\ call.extra = "termini"
          /\ EntryPasses(G1, g2, call.extra, motif_comp)
          /\ EveryMatchRaises(G1, g2)
       THEN pc' = "done" /\ ret' = RaisingSearch(G1, g2, call.count)
       ELSE IF call.count
       THEN IF EntryPasses(G1, g2, call.extra, motif_comp)
            THEN pc' = "loop" /\ ret' = NoRet
            ELSE pc' = "done" /\ ret' = PyInt(0)
       ELSE pc' = "done" /\ ret' = PyBool(ContainsBool(G1, g2, call.extra, motif_comp, wl))
    /\ UNCHANGED <<glycans, glycanStr, glycan, call, wref, work, g2, motif_comp, wl, counts, mappings>>

\* one round of the while loop that finds an occurrence
LoopFound ==
    /\ pc = "loop"
    /\ counts < MaxCount
    /\ UNCHANGED <<glycans, glycanStr, call, wref, g2, motif_comp, wl, entry_g1>>
    /\ \E m \in subgraph_isomorphisms(G1, g2, call.extra, wl) :
          /\ counts' = counts_plus_one(counts)
          /\ mappings' = Append(mappings, Range(m))
          /\ RemoveFromG1(mapping_keys(m))
    /\ IF call.extra = "wildcards" \/ PreCheck(G1', motif_comp)
       THEN pc' = "loop" /\ ret' = ret
       ELSE pc' = "done" /\ ret' = PyInt(counts')

\* the while condition fails
LoopExit ==
    /\ pc = "loop"
    /\ ~subgraph_is_isomorphic(G1, g2, call.extra, wl)
    /\ pc' = "done"
    /\ ret' = PyInt(counts)
    /\ UNCHANGED <<glycans, glycanStr, glycan, call, wref, work, g2, motif_comp, wl, entry_g1,
                   counts, mappings>>

(***************************************************************************)
(* compare_glycans, called with the caller's graph on either side          *)
(***************************************************************************)
\* the caller converts the other notation
CompareGlycansArgs(other, first, wildcards, wildcard_list) ==
    /\ pc = "idle"
    /\ call' = [op |-> "equals", first |-> first, wildcards |-> wildcards,
                wildcard_list |-> wildcard_list]
    /\ work' = glycan_to_nxGraph(other, "ignore", <<>>, FALSE)
    /\ pc' = "compare"
    /\ UNCHANGED <<glycans, glycanStr, glycan, wref, g2, motif_comp, wl, entry_g1, counts,
                   mappings, ret>>

\* glycan_a and glycan_b of the running comparison
GlycanA == IF call.first THEN glycan ELSE work
GlycanB == IF call.first THEN work ELSE glycan

CompareGlycansCall ==
    /\ pc = "compare"
    /\ ret' = PyBool(compare_glycans(GlycanA, GlycanB, call.wildcards, call.wildcard_list))
    /\ pc' = "done"
    /\ UNCHANGED <<glycans, glycanStr, glycan, call, wref, work, g2, motif_comp, wl, entry_g1,
                   counts, mappings>>

(***************************************************************************)
(* largest_subgraph, called with the caller's graph on either side         *)
(***************************************************************************)
\* the node sets of graph_a that ISMAGS.largest_common_subgraph may yield
\* first: the largest sets whose induced subgraph also is an induced
\* subgraph of graph_b, with the registry ids equal; none when no node of
\* graph_a has a registry id that graph_b has
largest_common_subgraph(graph_a, graph_b) ==
    LET common == {S \in SUBSET Nodes(graph_a) :
                     /\ S # {}
                     /\ subgraph_is_isomorphic(graph_b, subgraph(graph_a, S), "ignore", <<>>)}
    IN  {S \in common : \A T \in common : Cardinality(T) <= Cardinality(S)}

\* lgs as it is handed to graph_to_string
Lgs(graph_a, keys) ==
    relabel_nodes(subgraph(graph_a, keys), [k \in keys |-> k - Min(keys)])

\* the notation of lgs, from graph_to_string or else from the reference
\* table; the empty string if the common subgraph is not connected
LargestSubgraphOf(graph_a, keys) ==
    IF is_connected(subgraph(graph_a, keys))
    THEN Returned(TryGraphToString(graph_to_string(Lgs(graph_a, keys)), Lgs(graph_a, keys)))
    ELSE PyNotation(<<>>)

\* the caller converts the other notation
LargestSubgraphArgs(other, first) ==
    /\ pc = "idle"
    /\ glycanStr \in HostNotations
    /\ call' = [op |-> "largest_subgraph", first |-> first]
    /\ work' = glycan_to_nxGraph(other, "ignore", <<>>, FALSE)
    /\ pc' = "largest"
    /\ UNCHANGED <<glycans, glycanStr, glycan, wref, g2, motif_comp, wl, entry_g1, counts,
                   mappings, ret>>

LargestSubgraphCall ==
    /\ pc = "largest"
    /\ LET found == largest_common_subgraph(GlycanA, GlycanB)
       IN  IF found = {}
           THEN ret' = <<"raise", "IndexError">> /\ mappings' = mappings
           ELSE \E keys \in found :
                   /\ mappings' = <<keys>>
                   /\ ret' = LargestSubgraphOf(GlycanA, keys)
    /\ pc' = "done"
    /\ UNCHANGED <<glycans, glycanStr, glycan, call, wref, work, g2, motif_comp, wl,
                   entry_g1, counts>>

(***************************************************************************)
(* get_possible_topologies and possible_topology_check on the caller's     *)
(* graph                                                                   *)
(***************************************************************************)
add_edge(g, u, v) == [g EXCEPT !.edges = @ \cup {{u, v}}]

\* Faulty variant: the nodes keep their ids
KeptIds(g) == g

\* nx.relabel_nodes(g, {list(g.nodes())[j]: j for j in range(len(g.nodes()))})
Renumbered(g) ==
    relabel_nodes(g, [n \in Nodes(g) |-> (CHOOSE j \in DOMAIN g.order : g.order[j] = n) - 1])

\* the object ggraph2.add_edge changes: the copy, or ggraph itself
AfterAddEdge(ggraph, ggraph2) == IF copy_deepcopy("ggraph") = "ggraph" THEN ggraph2 ELSE ggraph

\* the for loop of get_possible_topologies over the nodes todo of parts[-1];
\* first and last are the node sets of parts[0] and parts[-1]
RECURSIVE TopologyLoop(_, _, _, _, _)
TopologyLoop(ggraph, first, last, todo, topologies) ==
    IF todo = <<>> THEN [ggraph |-> ggraph, topologies |-> topologies]
    ELSE IF Degree(subgraph(ggraph, last), Head(todo)) = 1 /\ Head(todo) # Max(last)
    THEN TopologyLoop(AfterAddEdge(ggraph, add_edge(ggraph, Max(first), Head(todo))),
                      first, last, Tail(todo),
                      Append(topologies,
                             Renumbered(add_edge(ggraph, Max(first), Head(todo)))))
    ELSE TopologyLoop(ggraph, first, last, Tail(todo), topologies)

\* Faulty variant: parts[0] is taken for the main part and parts[-1] for
\* the floating one
TopologiesOfPartsSwapped(ggraph, parts) ==
    TopologyLoop(ggraph, parts[Len(parts)], parts[1],
                 SeqMinus(ggraph.order, Nodes(ggraph) \ parts[1]), <<>>)

TopologiesOfParts(ggraph, parts) ==
    TopologyLoop(ggraph, parts[1], parts[Len(parts)],
                 SeqMinus(ggraph.order, Nodes(ggraph) \ parts[Len(parts)]), <<>>)

\* ggraph as the call leaves it, and the list returned
get_possible_topologies(ggraph) == TopologiesOfParts(ggraph, connected_components(ggraph))

GetPossibleTopologies ==
    /\ pc = "idle"
    /\ call' = [op |-> "get_possible_topologies"]
    /\ LET r == get_possible_topologies(glycan)
       IN  /\ glycan' = r.ggraph
           /\ ret' = <<"list", r.topologies>>
    /\ pc' = "done"
    /\ UNCHANGED <<glycans, glycanStr, wref, work, g2, motif_comp, wl, entry_g1, counts,
                   mappings>>

\* the caller converts the glycans of the list
PossibleTopologyCheckArgs(notations) ==
    /\ pc = "idle"
    /\ call' = [op |-> "possible_topology_check", glycans |-> notations]
    /\ glycans' = [i \in DOMAIN notations |->
                      glycan_to_nxGraph(notations[i], "ignore", <<>>, FALSE)]
    /\ pc' = "topology"
    /\ UNCHANGED <<glycanStr, glycan, wref, work, g2, motif_comp, wl, entry_g1, counts,
                   mappings, ret>>

\* Faulty variant: all(...) in the place of any(...)
out_glycs_all(topologies, references) ==
    SelectSeq(references, LAMBDA g :
       \A i \in DOMAIN topologies : compare_glycans(topologies[i], g, FALSE, <<>>))

\* the for loop of possible_topology_check: g is appended if any topology
\* compares equal to it
out_glycs(topologies, references) ==
    SelectSeq(references, LAMBDA g :
       \E i \in DOMAIN topologies : compare_glycans(topologies[i], g, FALSE, <<>>))

PossibleTopologyCheckCall ==
    /\ pc = "topology"
    /\ LET r == get_possible_topologies(glycan)
       IN  /\ glycan' = r.ggraph
           /\ ret' = <<"list", out_glycs(r.topologies, glycans)>>
    /\ pc' = "done"
    /\ UNCHANGED <<glycans, glycanStr, call, wref, work, g2, motif_comp, wl, entry_g1,
                   counts, mappings>>

\* the call is over; its objects are dropped
Return ==
    /\ pc = "done"
    /\ pc' = "idle"
    /\ call' = NoCall
    /\ wref' = "work"
    /\ work' = NoGraph
    /\ g2' = NoGraph
    /\ motif_comp' = <<>>
    /\ wl' = <<>>
    /\ entry_g1' = NoGraph
    /\ counts' = 0
    /\ mappings' = <<>>
    /\ glycans' = <<>>
    /\ ret' = NoRet
    /\ UNCHANGED <<glycanStr, glycan>>

\* the biantennary glycan is searched for Gal(b1-4)GlcNAc only
MotifsFor(host) == IF host = Biantennary THEN {GalGlcNAc} ELSE Motifs

Contains ==
    \E asStr \in BOOLEAN, motif \in MotifsFor(glycanStr), extra \in Modes, count \in BOOLEAN :
       \E wildcard_list \in (IF extra = "wildcards" THEN WildcardLists ELSE {<<>>}) :
          \E termini_list \in (IF extra = "termini"
                               THEN TerminiLists(Len(min_process_glycans(motif))) \cup {<<>>}
                               ELSE {<<>>}) :
             SubgraphIsomorphismCall(asStr, motif, extra, wildcard_list, termini_list, count)

Equals ==
    \E other \in OtherNotations, first \in BOOLEAN :
       \E wildcard_list \in WildcardLists :
          CompareGlycansArgs(other, first, wildcard_list # <<>>, wildcard_list)

LargestSubgraph ==
    \E other \in OtherNotations, first \in BOOLEAN : LargestSubgraphArgs(other, first)

PossibleTopologyCheck ==
    \E notations \in ReferenceLists : PossibleTopologyCheckArgs(notations)

Next ==
    \/ Contains
    \/ SubgraphIsomorphismEntry
    \/ LoopFound
    \/ LoopExit
    \/ Equals
    \/ CompareGlycansCall
    \/ LargestSubgraph
    \/ LargestSubgraphCall
    \/ GetPossibleTopologies
    \/ PossibleTopologyCheck
    \/ PossibleTopologyCheckCall
    \/ Return

Spec == Init /\ [][Next]_vars

\* a call that has entered the while loop goes on running: the round that is
\* due, one that finds an occurrence or the one that finds none, is taken
LoopFairness == WF_vars(LoopFound) /\ WF_vars(LoopExit)

LoopSpec == Init /\ [][Next]_vars /\ LoopFairness

(***************************************************************************)
(* The conversions on their own: a caller converts a notation into a       *)
(* graph, or holds a graph it built itself, and has it written back.       *)
(***************************************************************************)
\* notations are built with up to MaxUnits monosaccharides
MaxUnits == 5

\* graphs a caller built itself have up to MaxGraphNodes nodes
MaxGraphNodes == 4

\* The notations of the grammar with n monosaccharides "U" joined by
\* linkages "L": a main arm, then the bracketed arms, then the monosaccharide
\* they all are bound to.
RECURSIVE Tree(_)
RECURSIVE Arm(_)
RECURSIVE BranchArms(_)
Tree(n) ==
    IF n = 1 THEN {<<"U">>}
    ELSE UNION {{a \o b \o <<"U">> : a \in Arm(k), b \in BranchArms(n - 1 - k)} :
                  k \in 1..(n - 1)}

Arm(n) == {t \o <<"(", "L", ")">> : t \in Tree(n)}

BranchArms(n) ==
    IF n = 0 THEN {<<>>}
    ELSE UNION {{<<"[">> \o a \o <<"]">> \o rest : a \in Arm(k), rest \in BranchArms(n - k)} :
                  k \in 1..n}

UnitNames == <<"Gal", "Glc", "Man">>
LinkNames == <<"b1-4", "a1-3">>

\* how many s[q] = x there are before position p
CountBefore(s, p, x) == Cardinality({q \in 1..(p - 1) : s[q] = x})

\* the names put in: the same everywhere, or a different one from one
\* monosaccharide and linkage to the next
Named(s, varied) ==
    [p \in DOMAIN s |->
        IF s[p] = "U"
        THEN (IF varied THEN UnitNames[(CountBefore(s, p, "U") % 3) + 1] ELSE "Gal")
        ELSE IF s[p] = "L"
        THEN (IF varied THEN LinkNames[(CountBefore(s, p, "L") % 2) + 1] ELSE "b1-4")
        ELSE s[p]]

Notations ==
    {Named(s, varied) : s \in UNION {Tree(n) : n \in 1..MaxUnits}, varied \in BOOLEAN}

\* notations that end in a linkage
LinkageEnded ==
    {Named(s, varied) : s \in UNION {Arm(n) : n \in 1..(MaxUnits - 1)}, varied \in BOOLEAN}

\* notations whose last monosaccharide is 'Hex'
HexEnded == {SubSeq(s, 1, Len(s) - 1) \o <<"Hex">> : s \in Notations}

\* notations whose brackets do not pair up, and one with an empty pair
Malformed ==
    {<<"Gal", "(", "b1-4", ")", "[", "Gal", "(", "a1-3", ")", "Glc">>,
     <<"Gal", "(", "b1-4", ")", "Gal", "(", "a1-3", ")", "]", "Glc">>,
     <<"Gal", "(", "b1-4", ")", "[", "Man", "(", "a1-3", ")">>,
     <<"Gal", "(", "b1-4", ")", "[", "[", "Gal", "(", "a1-3", ")", "]", "Glc">>,
     <<"Gal", "(", "b1-4", ")", "[", "Gal", "(", "a1-3", ")", "]", "]", "Glc">>,
     <<"Gal", "(", "b1-4", ")", "]", "[", "Glc">>,
     <<"[", "Gal">>,
     <<"Gal", "[", "Glc", "]", "Man">>,
     <<"Gal", "(", "b1-4", ")", "[", "]", "Glc">>}

\* Gal(b1-4)[Man(a1-3)]Glc(b1-4)[Gal(a1-3)][Man(a1-6)]Glc: one branch on the
\* inner Glc, two sibling branches on the last one
BranchedTwice ==
    <<"Gal", "(", "b1-4", ")", "[", "Man", "(", "a1-3", ")", "]", "Glc", "(", "b1-4", ")",
      "[", "Gal", "(", "a1-3", ")", "]", "[", "Man", "(", "a1-6", ")", "]", "Glc">>

\* the glycoletters of the nodes 0, 1, ... of a graph built by hand
GraphNames == <<"Gal", "b1-4", "Glc", "a1-3", "Man">>

GraphOn(n, edges) ==
    [order         |-> [i \in 1..n |-> i - 1],
     edges         |-> edges,
     labels        |-> [k \in 0..(n - 1) |-> character_to_label(GraphNames[(k % 5) + 1])],
     string_labels |-> [k \in 0..(n - 1) |-> GraphNames[(k % 5) + 1]],
     termini       |-> EmptyAttr]

\* the connected graphs on the nodes 0..n-1
ConnectedGraphs(n) ==
    {g \in {GraphOn(n, edges) : edges \in SUBSET {{u, v} : u, v \in 0..(n - 1)}} :
        /\ \A e \in g.edges : Cardinality(e) = 2
        /\ is_connected(g)}

NotationInit ==
    /\ \/ /\ glycanStr \in Notations \cup LinkageEnded \cup HexEnded \cup Malformed
             \cup {<<"Hex">>, Biantennary, BranchedTwice}
          /\ glycan = NoGraph
          /\ pc = "notation"
       \/ /\ glycanStr = <<>>
          /\ glycan \in UNION {ConnectedGraphs(n) : n \in 1..MaxGraphNodes}
          /\ pc = "graph"
    /\ call = NoCall
    /\ wref = "work"
    /\ work = NoGraph
    /\ g2 = NoGraph
    /\ motif_comp = <<>>
    /\ wl = <<>>
    /\ entry_g1 = NoGraph
    /\ counts = 0
    /\ mappings = <<>>
    /\ glycans = <<>>
    /\ ret = NoRet

\* glycan_to_nxGraph(glycanStr, override_reducing_end = override)
GlycanToNxGraph(override) ==
    /\ pc = "notation"
    /\ call' = [op |-> "glycan_to_nxGraph", override |-> override]
    /\ IF ParseError(glycanStr, override) # ""
       THEN /\ ret' = PyRaise(ParseError(glycanStr, override))
            /\ glycan' = glycan
            /\ pc' = "done"
       ELSE /\ ret' = ret
            /\ glycan' = glycan_to_nxGraph(glycanStr, "ignore", <<>>, override)
            /\ pc' = "graph"
    /\ UNCHANGED <<glycanStr, wref, work, g2, motif_comp, wl, entry_g1, counts, mappings,
                   glycans>>

\* graph_to_string(glycan)
GraphToString ==
    /\ pc = "graph"
    /\ ret' = Returned(NotationOf(graph_to_string(glycan)))
    /\ pc' = "string"
    /\ UNCHANGED <<glycanStr, glycan, call, wref, work, g2, motif_comp, wl, entry_g1, counts,
                   mappings, glycans>>

\* temp = glycan_to_nxGraph(graph_to_string(graph)), or NoGraph when one of
\* the two raises
Reconverted(r) ==
    IF r.err # "" THEN NoGraph
    ELSE IF ParseError(r.val, FALSE) # "" THEN NoGraph
    ELSE glycan_to_nxGraph(r.val, "ignore", <<>>, FALSE)

\* return graph_to_string(temp); except: return None
SecondString(r, temp) ==
    IF r.err # "" \/ ParseError(r.val, FALSE) # "" THEN PyNone
    ELSE IF graph_to_string(temp).err # "" THEN PyNone
    ELSE PyNotation(NotationOf(graph_to_string(temp)).val)

\* try_string_conversion(glycan)
TryStringConversion ==
    /\ pc = "graph"
    /\ work' = Reconverted(NotationOf(graph_to_string(glycan)))
    /\ ret' = SecondString(NotationOf(graph_to_string(glycan)), work')
    /\ pc' = "converted"
    /\ UNCHANGED <<glycanStr, glycan, call, wref, g2, motif_comp, wl, entry_g1, counts,
                   mappings, glycans>>

\* find_isomorphs(glycan): list(set(...)) has no fixed order, and the list
\* returned is carried as the set of its notations
FindIsomorphs ==
    /\ pc = "notation"
    /\ call' = [op |-> "find_isomorphs"]
    /\ ret' = <<"set", find_isomorphs(glycanStr)>>
    /\ pc' = "done"
    /\ UNCHANGED <<glycanStr, glycan, wref, work, g2, motif_comp, wl, entry_g1, counts,
                   mappings, glycans>>

NotationNext ==
    \/ \E override \in BOOLEAN : GlycanToNxGraph(override)
    \/ GraphToString
    \/ TryStringConversion
    \/ FindIsomorphs

NotationSpec == NotationInit /\ [][NotationNext]_vars

(***************************************************************************)
(* Properties                                                              *)
(***************************************************************************)
InContains == pc \in {"entry", "loop", "done"} /\ call.op = "contains"
CountReturned == pc = "done" /\ call.op = "contains" /\ call.count /\ ret[1] = "int"
EqualsReturned == pc = "done" /\ call.op = "equals"

\* the returned value is True, or a count of at least one
Truthy(r) == (r[1] = "bool" /\ r[2]) \/ (r[1] = "int" /\ r[2] >= 1)

\* C1: the count and the boolean result of contains agree.  When a counting
\* call returns, its count is >= 1 if the call without counting returns True
\* on the same glycan, motif and mode, and 0 if that call returns False.
C1_CountAgreesWithBoolean ==
    CountReturned =>
        LET b == ContainsBool(entry_g1, g2, call.extra, motif_comp, wl)
        IN  /\ b => ret[2] >= 1
            /\ ~b => ret[2] = 0

C1_Witness ==
    /\ CountReturned
    /\ ret[2] = 2
    /\ ContainsBool(entry_g1, g2, call.extra, motif_comp, wl)

\* C2: no operation changes the graph the caller holds.  No step of
\* subgraph_isomorphism (counting or not, in any mode), compare_glycans,
\* largest_subgraph, get_possible_topologies or possible_topology_check
\* changes the nodes, the edges or the node attributes of that graph; the
\* nodes a counting call removes are removed from its own copy.
C2_CallerGraphUnchanged == [][glycan' = glycan]_vars

\* a counting call on the caller's graph that has removed nodes
C2_Witness ==
    /\ CountReturned
    /\ ~call.asStr
    /\ counts >= 1
    /\ wref = "work"
    /\ Len(work.order) < Len(glycan.order)

\* C3: the occurrences counted are pairwise node-disjoint sets of nodes of
\* the glycan, each as large as the motif graph, one per count; so the count
\* times the motif's size never exceeds the glycan's size, and a count that
\* is returned is that number of occurrences.
C3_OccurrencesDisjoint ==
    (pc \in {"loop", "done"} /\ call.op = "contains" /\ call.count) =>
        /\ Len(mappings) = counts
        /\ \A i \in DOMAIN mappings :
              /\ mappings[i] \subseteq Nodes(entry_g1)
              /\ Cardinality(mappings[i]) = Len(g2.order)
              /\ \A j \in DOMAIN mappings : i < j => mappings[i] \cap mappings[j] = {}
        /\ counts * Len(g2.order) <= Len(entry_g1.order)
        /\ Len(g2.order) > 0 => counts <= Len(entry_g1.order) \div Len(g2.order)
        /\ (pc = "done" /\ ret[1] = "int") => ret = PyInt(counts)

C3_Witness ==
    /\ CountReturned
    /\ Len(mappings) = 2
    /\ mappings[1] # {}
    /\ mappings[1] \cap mappings[2] = {}

\* the motif with all its glycoletters, as glycan_to_nxGraph converts it
\* when nothing is overridden
MotifAsWritten ==
    glycan_to_nxGraph(call.motif, MotifTermini(call.extra), call.termini_list, FALSE)

\* C4: the greedy count is maximal.  When a counting call returns, what is
\* left of g1 holds no occurrence of the motif under the mode's predicate;
\* and when the loop was entered it holds no occurrence of the motif graph
\* g2 the matcher was built on either.
C4_GreedyCountIsMaximal ==
    CountReturned =>
        /\ ~Occurs(G1, MotifAsWritten, call.extra, wl)
        /\ EntryPasses(entry_g1, g2, call.extra, motif_comp) =>
              ~Occurs(G1, g2, call.extra, wl)

\* the loop stopped on the glycoletter test with nodes left over
C4_Witness ==
    /\ CountReturned
    /\ ret[2] >= 1
    /\ ~PreCheck(G1, motif_comp)
    /\ Len(G1.order) >= Len(g2.order)

\* the glycoletters of the glycan the call was made on
HostLabels == {entry_g1.string_labels[n] : n \in Nodes(entry_g1)}

C6_EqualsSymmetric ==
    EqualsReturned =>
        ret[2] = compare_glycans(GlycanB, GlycanA, call.wildcards, call.wildcard_list)

\* equal only thanks to a wildcard that one side alone carries
C6_Witness ==
    /\ EqualsReturned
    /\ call.wildcards
    /\ ret[2]
    /\ \E n \in Nodes(GlycanB) : GlycanB.string_labels[n] \in Range(call.wildcard_list)
    /\ \A n \in Nodes(GlycanA) : GlycanA.string_labels[n] \notin Range(call.wildcard_list)

\* an adjacency-preserving bijection that maps every node to a node with
\* the same registry id
LabelledIsomorphic(a, b) ==
    /\ Len(a.order) = Len(b.order)
    /\ \E f \in [Nodes(a) -> Nodes(b)] :
          /\ \A u, v \in Nodes(a) : u # v => f[u] # f[v]
          /\ \A u \in Nodes(a) : a.labels[u] = b.labels[f[u]]
          /\ \A u, v \in Nodes(a) : ({u, v} \in a.edges) <=> ({f[u], f[v]} \in b.edges)

\* C7: without wildcards compare_glycans returns True exactly when the two
\* graphs have as many nodes and an adjacency-preserving bijection maps every
\* node to one with the same registry id; the cheaper tests reject no such pair.
C7_EqualsIffIsomorphic ==
    (EqualsReturned /\ ~call.wildcards) =>
        (ret[2] <=> LabelledIsomorphic(GlycanA, GlycanB))

\* equal graphs whose nodes are numbered differently
C7_Witness ==
    /\ EqualsReturned /\ ~call.wildcards
    /\ ret[2]
    /\ GlycanA.string_labels # GlycanB.string_labels

\* C8 as claimed: in the mode 'wildcards' the matcher's predicate accepts a
\* pair of nodes if one of the two labels is in the caller's wildcard list,
\* and otherwise exactly when the registry ids are equal.
C8_WildcardMatchesAnyNode ==
    (InContains /\ call.extra = "wildcards") =>
        \A n1 \in Nodes(G1), n2 \in Nodes(g2) :
            NodeMatch("wildcards", G1, n1, g2, n2, wl)
            <=> \/ G1.string_labels[n1] \in Range(call.wildcard_list)
                \/ g2.string_labels[n2] \in Range(call.wildcard_list)
                \/ G1.labels[n1] = g2.labels[n2]

\* C9 as claimed: with every glycoletter of the motif in the wildcard list,
\* contains without counting is True for every glycan with at least as many
\* nodes as the motif.
C9_WildcardSuperset ==
    (pc = "done" /\ call.op = "contains" /\ call.extra = "wildcards" /\ ~call.count
        /\ Range(motif_comp) \subseteq Range(call.wildcard_list)
        /\ Len(entry_g1.order) >= Len(motif_comp)) =>
        ret[2]

\* C10: in the mode 'termini' two nodes that carry termini are compatible
\* exactly when their registry ids are equal and their termini are equal or
\* one of the two is 'flexible'.
C10_PositionalCompatibility ==
    (InContains /\ call.extra = "termini") =>
        \A n1 \in Nodes(G1) \cap DOMAIN G1.termini, n2 \in Nodes(g2) \cap DOMAIN g2.termini :
            NodeMatch("termini", G1, n1, g2, n2, wl)
            <=> /\ G1.labels[n1] = g2.labels[n2]
                /\ \/ G1.termini[n1] = g2.termini[n2]
                   \/ G1.termini[n1] = "flexible"
                   \/ g2.termini[n2] = "flexible"

\* a flexible node on either side, once with the labels equal and the
\* termini different, once with the labels different
C10_Witness ==
    /\ InContains /\ call.extra = "termini"
    /\ \E n1 \in Nodes(G1) \cap DOMAIN G1.termini, n2 \in Nodes(g2) \cap DOMAIN g2.termini :
          /\ G1.termini[n1] = "flexible" /\ g2.termini[n2] = "terminal"
          /\ G1.labels[n1] = g2.labels[n2]
    /\ \E n1 \in Nodes(G1) \cap DOMAIN G1.termini, n2 \in Nodes(g2) \cap DOMAIN g2.termini :
          /\ G1.termini[n1] = "internal" /\ g2.termini[n2] = "flexible"
          /\ G1.labels[n1] # g2.labels[n2]

(***************************************************************************)
(* Properties of the conversions (NotationSpec)                            *)
(***************************************************************************)
\* the notation was converted as it is, without override_reducing_end
Converted == call # NoCall /\ call.op = "glycan_to_nxGraph" /\ ~call.override

\* the brackets of a notation pair up
Balanced(s) ==
    /\ \A p \in DOMAIN s : CountBefore(s, p + 1, "]") <= CountBefore(s, p + 1, "[")
    /\ CountBefore(s, Len(s) + 1, "]") = CountBefore(s, Len(s) + 1, "[")

\* C11: structural round trip.  For every notation of the grammar (linear,
\* one branch, sibling branches, nested branches), converting the notation,
\* writing the graph back and converting the result gives a graph that
\* compare_glycans takes for the first one.
C11_StructuralRoundTrip ==
    (pc = "converted" /\ glycanStr \in Notations /\ Converted) =>
        /\ work # NoGraph
        /\ compare_glycans(work, glycan, FALSE, <<>>)

\* C12: graph_to_string never guesses.  For every connected graph with the
\* nodes 0..n-1 it raises, or returns a notation whose graph compare_glycans
\* takes for the graph given.
C12_SerializeNeverGuesses ==
    (/\ pc = "string"
     /\ is_connected(glycan)
     /\ Nodes(glycan) = 0..(Len(glycan.order) - 1)) =>
        \/ ret[1] = "raise"
        \/ /\ ParseError(ret[2], FALSE) = ""
           /\ compare_glycans(glycan_to_nxGraph(ret[2], "ignore", <<>>, FALSE), glycan,
                              FALSE, <<>>)

C14_OnlyPlaceholderStripped ==
    (pc = "graph" /\ call # NoCall /\ call.op = "glycan_to_nxGraph" /\ call.override) =>
        /\ Len(glycan.order) = Len(min_process_glycans(glycanStr))
        /\ \A k \in Nodes(glycan) : glycan.string_labels[k] = min_process_glycans(glycanStr)[k + 1]

\* C15: a notation whose brackets do not pair up is rejected: the conversion
\* raises SyntaxError and returns no graph.
C15_UnbalancedRejected ==
    (call # NoCall /\ call.op = "glycan_to_nxGraph" /\ ~Balanced(glycanStr)) =>
        pc = "done" /\ ret = PyRaise("SyntaxError")


\* C16: matching never raises on a no-match outcome.  A contains or equals
\* call that has returned has returned a bool or an int, never an exception,
\* also in positional mode on a graph that carries no termini or with a
\* termini list shorter than the motif.
C16_MatchingNeverRaises ==
    (pc = "done" /\ call.op \in {"contains", "equals"}) => ret[1] # "raise"


\* a largest_subgraph call has ended, with a notation or with an exception
LargestReturned == pc = "done" /\ call.op = "largest_subgraph"

\* no node of glycan_a has a registry id that glycan_b has
NoCommonLabel ==
    \A n \in Nodes(GlycanA), m \in Nodes(GlycanB) : GlycanA.labels[n] # GlycanB.labels[m]

\* C17: when glycan_a and glycan_b have no common subgraph, largest_subgraph
\* returns the empty string and does not raise.
C17_EmptyStringWhenNothingCommon ==
    (LargestReturned /\ NoCommonLabel) => ret = PyNotation(<<>>)


\* the notation s, read as contains reads a motif, is a connected graph that
\* occurs in g under the exact predicate
DenotesFragmentOf(s, g) ==
    /\ ParseError(s, TRUE) = ""
    /\ is_connected(glycan_to_nxGraph(s, "ignore", <<>>, TRUE))
    /\ ContainsBool(g, glycan_to_nxGraph(s, "ignore", <<>>, TRUE), "ignore",
                    min_process_glycans(s), <<>>)

\* C18: largest_subgraph returns the empty string whenever the subgraph of
\* glycan_a on the nodes of the largest correspondence is not connected, and
\* a non-empty string it returns is the notation of a connected fragment
\* that both glycan_a and glycan_b contain.
C18_ConnectedCommonFragment ==
    (LargestReturned /\ mappings # <<>>) =>
        /\ ~is_connected(subgraph(GlycanA, mappings[1])) => ret = PyNotation(<<>>)
        /\ (ret[1] = "str" /\ ret[2] # <<>>) =>
              /\ DenotesFragmentOf(ret[2], GlycanA)
              /\ DenotesFragmentOf(ret[2], GlycanB)

\* C19: largest_subgraph("Gal(b1-4)Glc", "Gal(b1-4)GlcNAc") returns a
\* non-empty string that is the notation of the two nodes they share, Gal
\* bound to b1-4, and not of one node.
C19_GalLinkageFragment ==
    (LargestReturned /\ call.first /\ glycanStr = GalGlc
        /\ work = glycan_to_nxGraph(GalGlcNAc, "ignore", <<>>, FALSE)) =>
        /\ ret[1] = "str" /\ ret[2] # <<>>
        /\ ParseError(ret[2], TRUE) = ""
        /\ LET fragment == glycan_to_nxGraph(ret[2], "ignore", <<>>, TRUE)
           IN  /\ Len(fragment.order) = 2
               /\ {fragment.string_labels[n] : n \in Nodes(fragment)} = {"Gal", "b1-4"}
               /\ Cardinality(fragment.edges) = 1

\* the connected components of the caller's graph: the main one is the
\* larger, the floating one the other
Components == Range(connected_components(glycan))
HasMainAndFloating ==
    /\ Cardinality(Components) = 2
    /\ \E c \in Components : \A d \in Components \ {c} : Cardinality(d) < Cardinality(c)
MainComponent ==
    CHOOSE c \in Components : \A d \in Components \ {c} : Cardinality(d) < Cardinality(c)
FloatingComponent == CHOOSE c \in Components : c # MainComponent

\* the nodes of the main component of degree 1, its last node left out
AttachmentPoints ==
    {n \in MainComponent : Degree(glycan, n) = 1 /\ n # Max(MainComponent)}

TopologiesReturned == pc = "done" /\ call.op = "get_possible_topologies"

\* C20: on a graph of a main and one floating component,
\* get_possible_topologies returns one graph for each node of degree 1 of
\* the main component other than its last node, the floating component
\* bound to that node, and no other graph; so none if there is no such node.
C20_OneTopologyPerAttachmentPoint ==
    (TopologiesReturned /\ HasMainAndFloating) =>
        /\ ret[1] = "list"
        /\ Len(ret[2]) = Cardinality(AttachmentPoints)
        /\ Range(ret[2]) =
              {Renumbered(add_edge(glycan, Max(FloatingComponent), n)) : n \in AttachmentPoints}
        /\ \A i, k \in DOMAIN ret[2] : i # k => ret[2][i] # ret[2][k]

\* a branched main component with two nodes to bind the floating one to
C20_Witness ==
    /\ TopologiesReturned /\ HasMainAndFloating
    /\ Cardinality(AttachmentPoints) = 2
    /\ Len(ret[2]) = 2
    /\ Cardinality(MainComponent) = 5

TopologyCheckReturned == pc = "done" /\ call.op = "possible_topology_check"

\* the places in the list of the glycans that some topology of the caller's
\* graph compares equal to
MatchingPlaces ==
    {i \in DOMAIN glycans :
        \E t \in Range(get_possible_topologies(glycan).topologies) :
           compare_glycans(t, glycans[i], FALSE, <<>>)}

\* C21: possible_topology_check returns the glycans of the list that compare
\* equal to at least one topology, each as it was given and in the order of
\* the list, and no other glycan.
C21_MatchingReferencesInOrder ==
    TopologyCheckReturned =>
        /\ ret[1] = "list"
        /\ Len(ret[2]) = Cardinality(MatchingPlaces)
        /\ \A j \in DOMAIN ret[2] :
              \E i \in MatchingPlaces :
                 /\ Cardinality({k \in MatchingPlaces : k < i}) = j - 1
                 /\ ret[2][j] = glycans[i]

\* of two glycans in the list the second one is returned and the first not
C21_Witness ==
    /\ TopologyCheckReturned
    /\ Len(glycans) = 2
    /\ MatchingPlaces = {2}
    /\ ret[2] = <<glycans[2]>>

\* a plain conversion of the biantennary notation has ended
BiantennaryConverted == Converted /\ pc = "graph" /\ glycanStr = Biantennary

\* C22 as claimed: the biantennary notation is converted into a graph of 11
\* nodes.
C22_ElevenNodes ==
    BiantennaryConverted => Len(glycan.order) = 11

\* C22: the biantennary notation is converted into a graph of 17 nodes, one
\* for each of its 9 monosaccharides and 8 linkages.
C22_SeventeenNodes ==
    BiantennaryConverted =>
        /\ Len(glycan.order) = 17
        /\ Len(glycan.order) = Len(min_process_glycans(glycanStr))
        /\ Cardinality({n \in Nodes(glycan) : glycan.string_labels[n] \in {"Gal", "GlcNAc", "Man"}}) = 9

C22_Witness ==
    /\ BiantennaryConverted
    /\ Cardinality(glycan.edges) = 16
    /\ Degree(glycan, 12) = 3

\* a counting call for Gal(b1-4)GlcNAc in the biantennary glycan under the
\* exact predicate has returned
BiantennaryCounted ==
    /\ CountReturned
    /\ glycanStr = Biantennary
    /\ call.motif = GalGlcNAc
    /\ call.extra = "ignore"

\* C23: in the biantennary glycan the motif Gal(b1-4)GlcNAc is counted twice
\* under the exact predicate, whichever occurrence is found first.
C23_BothAntennaeCounted ==
    BiantennaryCounted => ret = PyInt(2)

\* the two occurrences counted are the two antennae, found in either order
C23_Witness ==
    /\ BiantennaryCounted
    /\ mappings = <<{6, 7, 8}, {0, 1, 2}>>
    /\ Len(G1.order) = 11

\* the glycoletters of a notation inside its braces, and those outside them
InBraces(s, p) == \E i \in 1..(p - 1) : s[i] = "{" /\ \A j \in i..p : s[j] # "}"
FloatingTokens(s) == {p \in DOMAIN s : s[p] \notin Delims \cup Braces /\ InBraces(s, p)}
MainTokens(s) == {p \in DOMAIN s : s[p] \notin Delims \cup Braces /\ ~InBraces(s, p)}
OneFloatingPart(s) == Cardinality({p \in DOMAIN s : s[p] = "{"}) = 1

HostConverted == pc = "idle" /\ OneFloatingPart(glycanStr)

\* C24: the graph of a notation with one floating part in braces has exactly two
\* connected components, the main part on the ids 0..m-1 and the floating part
\* on the ids m..N-1, with m and N-m the numbers of tokens of the two parts, and
\* no edge joins a node of one part to a node of the other.
C24_TwoDisjointParts ==
    HostConverted =>
        LET m == Cardinality(MainTokens(glycanStr))
            N == m + Cardinality(FloatingTokens(glycanStr))
        IN  /\ Nodes(glycan) = 0..(N - 1)
            /\ Len(glycan.order) = N
            /\ Components = {0..(m - 1), m..(N - 1)}
            /\ Cardinality(Components) = 2
            /\ \A e \in glycan.edges : (\A n \in e : n < m) \/ (\A n \in e : n >= m)

IsomorphsReturned == pc = "done" /\ call.op = "find_isomorphs"

\* compare_glycans on two notations: as many glycoletters, and equal graphs
SameStructure(glycan_a, glycan_b) ==
    /\ Len(min_process_glycans(glycan_a)) = Len(min_process_glycans(glycan_b))
    /\ ParseError(glycan_a, FALSE) = "" /\ ParseError(glycan_b, FALSE) = ""
    /\ compare_glycans(glycan_to_nxGraph(glycan_a, "ignore", <<>>, FALSE),
                       glycan_to_nxGraph(glycan_b, "ignore", <<>>, FALSE), FALSE, <<>>)

\* the notations of the grammar: every bracket pairs up and holds a branch
WellFormed(s) == s \in Notations \cup {Biantennary, BranchedTwice}

\* C25: for a notation of the grammar (its brackets pair up), the list
\* find_isomorphs returns holds the notation itself, and every notation of the
\* list is equal (compare_glycans) to it; this also with branches on more than
\* one monosaccharide and with sibling branches '][' .
C25_IsomorphsKeepStructure ==
    (IsomorphsReturned /\ WellFormed(glycanStr) /\ Balanced(glycanStr)) =>
        /\ glycanStr \in ret[2]
        /\ \A k \in ret[2] : SameStructure(k, glycanStr)

\* position in the notation of its glycoletter number k (counted from 0)
TokenPos(s, k) == CHOOSE p \in DOMAIN s : s[p] \notin Delims /\ Cardinality({q \in 1..(p - 1) : s[q] \notin Delims}) = k

\* the bracket opened at position i is the one closed at position j
BracketGroup(s, i, j) ==
    /\ s[i] = "[" /\ s[j] = "]"
    /\ Balanced(SubSeq(s, i, j))
    /\ \A m \in i..(j - 1) : ~Balanced(SubSeq(s, i, m))

\* the positions strictly between two glycoletters that lie in no complete
\* bracket group of the text between them
OutsideGroups(s, from, to) ==
    {p \in (from + 1)..(to - 1) :
        ~\E i \in (from + 1)..p, j \in p..(to - 1) : BracketGroup(s, i, j)}

\* the text between two glycoletters without its complete bracket groups
TextBetween(s, from, to) ==
    LET kept == OutsideGroups(s, from, to)
    IN  [i \in 1..Cardinality(kept) |->
            s[CHOOSE p \in kept : Cardinality({q \in kept : q < p}) = i - 1]]

ChainDelimiter == {<<"(">>, <<")">>, <<"(", "]">>, <<")", "]">>}

\* every bracket pair of the notation holds something
NoEmptyGroup(s) == \A p \in 1..(Len(s) - 1) : ~(s[p] = "[" /\ s[p + 1] = "]")

\* the test of C26 for the glycoletters k < j of the converted notation
EdgeFollowsText(k, j) ==
    ({k, j} \in glycan.edges)
        <=> (TextBetween(glycanStr, TokenPos(glycanStr, k), TokenPos(glycanStr, j))
                 \in ChainDelimiter)

NotationConverted == Converted /\ pc = "graph" /\ Balanced(glycanStr)

\* C26 as stated, for every notation whose brackets pair up, 'Gal(b1-4)[]Glc'
\* with its empty bracket pair included: the glycoletters k < j are joined
\* exactly when the text between them without its complete bracket groups is
\* a chain delimiter alone or followed by one ']'.
C26_EdgesFollowTextOfAnyGroup ==
    NotationConverted => \A k, j \in Nodes(glycan) : k < j => EdgeFollowsText(k, j)

\* C26: in the graph of a notation whose brackets pair up and hold at least
\* one glycoletter each, the glycoletters k < j are joined by an edge exactly
\* when the text strictly between them, every complete bracket group taken
\* out, is one '(' or ')' alone or followed by one ']': a branch is joined to
\* the monosaccharide it attaches to across the bracket groups in between, and
\* nothing is joined to the first glycoletter of a branch that opens right
\* after it.
C26_EdgesFollowText ==
    (NotationConverted /\ NoEmptyGroup(glycanStr)) =>
        \A k, j \in Nodes(glycan) : k < j => EdgeFollowsText(k, j)

\* b1-4 reaches the last Glc across two sibling branches, a1-3 across one,
\* and b1-4 is not joined to the Gal that opens the branch after it
C26_Witness ==
    /\ NotationConverted
    /\ glycanStr = BranchedTwice
    /\ {5, 10} \in glycan.edges /\ {7, 10} \in glycan.edges /\ {5, 6} \notin glycan.edges
    /\ TextBetween(glycanStr, TokenPos(glycanStr, 5), TokenPos(glycanStr, 10)) = <<")">>

\* a graph of two parts: the main one holds node 0, the other one floats
TwoParts == Cardinality(Components) = 2
MainPart == CHOOSE c \in Components : 0 \in c
FloatingPart == CHOOSE c \in Components : 0 \notin c

\* the place, counted from 0, of node n in the iteration order of the graph
PlaceOf(n) == (CHOOSE j \in DOMAIN glycan.order : glycan.order[j] = n) - 1

\* C27: every graph get_possible_topologies returns for a graph of a main and
\* a floating part has the ids 0..N-1, each node of the graph under the id of
\* its place in the iteration order and with its labels, the edges of the
\* graph and one more, which joins a node of degree 1 of the main part (not
\* its last node) to the highest node of the floating part, and is connected.
C27_CandidateAddsOneEdge ==
    (TopologiesReturned /\ TwoParts) =>
        \A i \in DOMAIN ret[2] :
            /\ ret[2][i].order = [j \in 1..Len(glycan.order) |-> j - 1]
            /\ \A n \in Nodes(glycan) :
                  /\ ret[2][i].labels[PlaceOf(n)] = glycan.labels[n]
                  /\ ret[2][i].string_labels[PlaceOf(n)] = glycan.string_labels[n]
            /\ \E k \in MainPart :
                  /\ Degree(glycan, k) = 1 /\ k # Max(MainPart)
                  /\ {k, Max(FloatingPart)} \notin glycan.edges
                  /\ ret[2][i].edges =
                        {{PlaceOf(u), PlaceOf(v)} : <<u, v>> \in {e \in Nodes(glycan) \X Nodes(glycan) :
                                                                    {e[1], e[2]} \in glycan.edges}}
                        \cup {{PlaceOf(k), PlaceOf(Max(FloatingPart))}}
            /\ Cardinality(ret[2][i].edges) = Cardinality(glycan.edges) + 1
            /\ is_connected(ret[2][i])

\* the floating Man(a1-3) bound to the Man of the branch: the ids of the
\* floating part come first in the candidate
C27_Witness ==
    /\ TopologiesReturned /\ TwoParts
    /\ glycanStr = Floating
    /\ Len(ret[2]) = 2
    /\ PlaceOf(Max(FloatingPart)) = 1
    /\ \E i \in DOMAIN ret[2] : {1, PlaceOf(2)} \in ret[2][i].edges

\* the nodes matched in glycan_a by the call that has ended
MatchedIds == mappings[1]
ConnectedMatch ==
    /\ LargestReturned /\ mappings # <<>>
    /\ is_connected(subgraph(GlycanA, MatchedIds))

\* C28: when the matched subgraph of glycan_a is connected, the graph handed
\* to graph_to_string has the ids 0..k-1, k the number of matched nodes, each
\* matched node under the id of its rank among the matched ids and with its
\* label; this also when the matched ids are not contiguous.
C28_DenseIdsBeforeSerialization ==
    ConnectedMatch =>
        /\ Nodes(Lgs(GlycanA, MatchedIds)) = 0..(Cardinality(MatchedIds) - 1)
        /\ \A n \in MatchedIds :
              Lgs(GlycanA, MatchedIds).string_labels[Cardinality({m \in MatchedIds : m < n})]
                  = GlycanA.string_labels[n]

\* a counting call is in its while loop, with a motif of at least one node
InCountingLoop == pc = "loop" /\ call.op = "contains" /\ call.count /\ g2.order # <<>>

InPositionalCount ==
    /\ pc \in {"loop", "done"} /\ call.op = "contains"
    /\ call.count /\ call.extra = "termini"
    /\ entry_g1 # NoGraph

\* C30: while occurrences are counted in the mode 'termini', every node left
\* in the working copy has the termini it had when the call began; for a host
\* given as a notation that is 'terminal' if the node had degree 1 in the
\* whole host and 'internal' otherwise, also for a node whose degree has
\* fallen to 1 since.
C30_TerminiKeptWhileCounting ==
    InPositionalCount =>
        \A n \in Nodes(G1) :
            /\ (n \in DOMAIN G1.termini) <=> (n \in DOMAIN entry_g1.termini)
            /\ n \in DOMAIN G1.termini => G1.termini[n] = entry_g1.termini[n]
            /\ call.asStr =>
                  G1.termini[n] = (IF Degree(entry_g1, n) = 1 THEN "terminal" ELSE "internal")

\* an occurrence was taken out and a node next to it, now of degree 1, is
\* still 'internal'
C30_Witness ==
    /\ InPositionalCount /\ call.asStr
    /\ counts >= 1
    /\ \E n \in Nodes(G1) :
          Degree(G1, n) = 1 /\ Degree(entry_g1, n) = 2 /\ G1.termini[n] = "internal"

=============================================================================
